---- MODULE Spec2Model ----
(***************************************************************************)
(* A model of libstd/bigint.rs: the unsigned BigUint (a vector of          *)
(* BigDigits, least significant first), the signed BigInt (Sign + BigUint) *)
(* and their constructors, arithmetic, division and radix conversion.      *)
(*                                                                         *)
(* A BigUint is modelled by its `data` vector, a sequence of naturals      *)
(* below `base`.  A task failure (fail!(), fail_unless!) is modelled by    *)
(* the value FAIL, which every operation passes on: a failed task returns  *)
(* nothing.  An absent Option is modelled by NONE.                         *)
(*                                                                         *)
(* The digit width `bits` is 16 or 32 in the source; the model keeps the   *)
(* relation of the widths (a uint is two BigDigits wide) and scales the    *)
(* width down so that the values can be enumerated.                        *)
(***************************************************************************)
EXTENDS Integers, Sequences, FiniteSets, TLC

VARIABLES
    over_shift, \* what this build makes of a shift by more than the type's width
    pc,         \* "ready": operands drawn; "done": the operation returned;
                \* "failed": the task failed; "over": a value too large to go on with
    op,         \* the operation applied last
    ua, ub,     \* BigUint operands (registers of the BigUint calculator)
    ur,         \* the pair of BigUints returned last (quotient, remainder)
    vin,        \* the digit array handed to a constructor or to fill_concat
    sgn,        \* the Sign handed to a BigInt constructor
    ia, ib,     \* BigInt operands
    ir,         \* the pair of BigInts returned last
    radix,      \* the radix handed to to_str_radix / parse_bytes
    str,        \* the string returned by to_str_radix
    parsed,     \* the Option<BigUint> returned by parse_bytes
    arg,        \* the native uint or int handed to the operation
    ret,        \* the native uint or int returned by to_uint / to_int, or
                \* the bit count `shift` of divmod
    ordering,   \* what cmp and the comparison operators answered
    estimate,   \* divmod_inner: (d0, d_unit, b_unit) as estimated in the last pass
    corrected   \* divmod_inner: (d0, prod) as corrected in the last pass

vars == <<over_shift, pc, op, ua, ub, ur, vin, sgn, ia, ib, ir, radix, str,
          parsed, arg, ret, ordering, estimate, corrected>>

----------------------------------------------------------------------------
(* Bounds of the model *)

\* BigDigit::bits, scaled down (16 or 32 in the source)
bits == 4
\* largest dividend drawn in the division specifications
MaxA == 300
\* largest divisor drawn in the division specifications
MaxB == 40
\* largest value kept in a register of the BigUint calculator
MaxReg == 40
\* longest digit array handed to BigUint::new / from_slice
MaxVec == 3
\* longest digit array drawn for the construction from a digit array
MaxSlice == 5
\* longest string handed to parse_bytes in the calculators
MaxStr == 2
\* largest shift amount of the calculators
MaxShift == 9
\* largest magnitude of a BigInt operand of the signed division
MaxI == 40
\* largest magnitude kept in the register of the BigInt calculator
MaxIReg == 20
\* largest value formatted and parsed back
MaxX == 300
\* largest value shifted in the shift specification
MaxSh == 300
\* largest of the small magnitudes converted to native integers
MaxConv == 40
\* longest string handed to parse_bytes in the parsing specification
MaxParse == 3
\* largest magnitude formatted with a radix outside 2..16
MaxBadVal == 20
\* largest of the small magnitudes of the operands of the arithmetic laws
MaxLaw == 24
\* largest of the small factors of the multiplication specification
MaxMul == 40

----------------------------------------------------------------------------
(* Values outside the numbers *)

\* the task failed: fail!(), fail_unless!, or an allocation no machine can serve
FAIL == <<-1>>
\* Option::None
NONE == <<-2>>
\* the operation never returns: a loop repeats one state forever
HANG == <<-3>>

\* x is no BigUint: the operation that was to produce it did not return
IsFail(x) == x = FAIL \/ x = HANG

\* what an operation on a and b passes on when one of them is no BigUint
Passed(a, b) == IF IsFail(a) THEN a ELSE b

----------------------------------------------------------------------------
(* BigDigit *)

RECURSIVE Pow(_, _)
Pow(b, e) == IF e = 0 THEN 1 ELSE b * Pow(b, e - 1)

base == Pow(2, bits)
uint_bits == 2 * bits
uint_modulus == Pow(2, uint_bits)
uint_max_value == uint_modulus - 1

get_hi(n) == (n \div base) % base
get_lo(n) == n % base

\* (hi, lo)
BigDigit_from_uint(n) == <<get_hi(n), get_lo(n)>>

BigDigit_to_uint(hi, lo) == (lo + hi * base) % uint_modulus

uint_max(x, y) == IF x > y THEN x ELSE y
uint_min(x, y) == IF x < y THEN x ELSE y

----------------------------------------------------------------------------
(* BigUint: construction *)

\* new_len with position in the place of rposition: the first nonzero digit
new_len_position(v) ==
    LET nz == {i \in 1..Len(v) : v[i] # 0}
    IN  IF nz = {} THEN 0 ELSE CHOOSE i \in nz : \A j \in nz : i <= j

\* v.rposition(|n| *n != 0).map_default(0, |p| *p + 1), 1-based here
new_len(v) ==
    LET nz == {i \in 1..Len(v) : v[i] # 0}
    IN  IF nz = {} THEN 0 ELSE CHOOSE i \in nz : \A j \in nz : j <= i

\* new without the truncation
new_untruncated(v) == v

new(v) == IF new_len(v) = Len(v) THEN v ELSE SubSeq(v, 1, new_len(v))

BigUint_zero == new(<<>>)
BigUint_one == new(<<1>>)

from_slice(slice) == new(slice)

BigUint_from_uint(n) ==
    LET hl == BigDigit_from_uint(n)
    IN  IF hl[1] = 0 /\ hl[2] = 0 THEN BigUint_zero
        ELSE IF hl[1] = 0 THEN new(<<hl[2]>>)
        ELSE new(<<hl[2], hl[1]>>)

is_zero(a) == Len(a) = 0
is_not_zero(a) == Len(a) # 0

----------------------------------------------------------------------------
(* BigUint: comparison, addition, subtraction *)

RECURSIVE cmp_from(_, _, _)
cmp_from(a, b, i) ==
    IF i = 0 THEN 0
    ELSE IF a[i] < b[i] THEN -1
    ELSE IF a[i] > b[i] THEN 1
    ELSE cmp_from(a, b, i - 1)

\* Neg for BigUint: `fail!()`
BigUint_neg(a) == FAIL

\* cmp that looks at the most significant digit only
cmp_top_digit(a, b) ==
    IF Len(a) < Len(b) THEN -1
    ELSE IF Len(a) > Len(b) THEN 1
    ELSE cmp_from(a, b, Len(a)) * (IF Len(a) > 0 /\ a[Len(a)] = b[Len(a)]
                                   THEN 0 ELSE 1)

\* -1, 0 or 1
cmp(a, b) ==
    IF Len(a) < Len(b) THEN -1
    ELSE IF Len(a) > Len(b) THEN 1
    ELSE cmp_from(a, b, Len(a))

\* Eq and Ord for BigUint: what ==, !=, <, <=, >= and > answer
BigUint_ord(a, b) ==
    [eq |-> cmp(a, b) = 0, ne |-> cmp(a, b) # 0,
     lt |-> cmp(a, b) < 0, le |-> cmp(a, b) <= 0,
     ge |-> cmp(a, b) >= 0, gt |-> cmp(a, b) > 0]

digit_at(a, i) == IF i <= Len(a) THEN a[i] ELSE 0

\* the closure of vec::from_fn in add: <<sum, carry>> after positions i..n
RECURSIVE add_from(_, _, _, _, _, _)
add_from(a, b, i, n, carry, sum) ==
    IF i > n THEN <<sum, carry>>
    ELSE LET hl == BigDigit_from_uint(digit_at(a, i) + digit_at(b, i) + carry)
         IN  add_from(a, b, i + 1, n, hl[1], Append(sum, hl[2]))

\* add over the digits of the first operand only
add_self_len(a, b) ==
    IF IsFail(a) \/ IsFail(b) THEN Passed(a, b)
    ELSE LET sc == add_from(a, b, 1, Len(a), 0, <<>>)
         IN  IF sc[2] = 0 THEN new(sc[1]) ELSE new(Append(sc[1], sc[2]))

add(a, b) ==
    IF IsFail(a) \/ IsFail(b) THEN Passed(a, b)
    ELSE LET sc == add_from(a, b, 1, uint_max(Len(a), Len(b)), 0, <<>>)
         IN  IF sc[2] = 0 THEN new(sc[1]) ELSE new(Append(sc[1], sc[2]))

\* the closure of vec::from_fn in sub: <<diff, borrow>>
RECURSIVE sub_from(_, _, _, _, _, _)
sub_from(a, b, i, n, borrow, diff) ==
    IF i > n THEN <<diff, borrow>>
    ELSE LET hl == BigDigit_from_uint(
                       base + digit_at(a, i) - digit_at(b, i) - borrow)
         IN  sub_from(a, b, i + 1, n,
                      IF hl[1] = 0 THEN 1 ELSE 0, Append(diff, hl[2]))

\* sub without `fail_unless!(borrow == 0)`
sub_unchecked(a, b) ==
    IF IsFail(a) \/ IsFail(b) THEN Passed(a, b)
    ELSE LET db == sub_from(a, b, 1, uint_max(Len(a), Len(b)), 0, <<>>)
         IN  new(db[1])

sub(a, b) ==
    IF IsFail(a) \/ IsFail(b) THEN Passed(a, b)
    ELSE LET db == sub_from(a, b, 1, uint_max(Len(a), Len(b)), 0, <<>>)
         IN  IF db[2] # 0 THEN FAIL ELSE new(db[1])

----------------------------------------------------------------------------
(* BigUint: shifts *)

zeros(n) == [i \in 1..n |-> 0]

shl_unit(a, n_unit) ==
    IF IsFail(a) THEN a
    ELSE IF n_unit = 0 \/ is_zero(a) THEN a
    ELSE new(zeros(n_unit) \o a)

RECURSIVE shl_bits_from(_, _, _, _, _)
shl_bits_from(a, n_bits, i, carry, shifted) ==
    IF i > Len(a) THEN <<shifted, carry>>
    ELSE LET hl == BigDigit_from_uint(
                       ((a[i] * Pow(2, n_bits)) % uint_modulus) + carry)
         IN  shl_bits_from(a, n_bits, i + 1, hl[1], Append(shifted, hl[2]))

shl_bits(a, n_bits) ==
    IF IsFail(a) THEN a
    ELSE IF n_bits = 0 \/ is_zero(a) THEN a
    ELSE LET sc == shl_bits_from(a, n_bits, 1, 0, <<>>)
         IN  IF sc[2] = 0 THEN new(sc[1]) ELSE new(Append(sc[1], sc[2]))

shr_unit(a, n_unit) ==
    IF IsFail(a) THEN a
    ELSE IF n_unit = 0 THEN a
    ELSE IF Len(a) < n_unit THEN BigUint_zero
    ELSE from_slice(SubSeq(a, n_unit + 1, Len(a)))

\* `*elem << (uint::bits - n_bits)` on a BigDigit: the count is larger than
\* the BigDigit's width.  A build that masks the count to the width shifts
\* by bits - n_bits; a build that shifts in a wider register and truncates
\* loses every bit.
shl_over_width(elem, n_bits) ==
    IF over_shift = "masked"
    THEN (elem * Pow(2, (uint_bits - n_bits) % bits)) % base
    ELSE (elem * Pow(2, uint_bits - n_bits)) % base

RECURSIVE shr_bits_from(_, _, _, _, _)
shr_bits_from(a, n_bits, i, borrow, shifted) ==
    IF i = 0 THEN shifted
    ELSE shr_bits_from(a, n_bits, i - 1, shl_over_width(a[i], n_bits),
                       <<((a[i] \div Pow(2, n_bits)) + borrow) % base>>
                           \o shifted)

shr_bits(a, n_bits) ==
    IF IsFail(a) THEN a
    ELSE IF n_bits = 0 \/ Len(a) = 0 THEN a
    ELSE new(shr_bits_from(a, n_bits, Len(a), 0, <<>>))

shl(a, rhs) == shl_bits(shl_unit(a, rhs \div bits), rhs % bits)

shr(a, rhs) == shr_bits(shr_unit(a, rhs \div bits), rhs % bits)

----------------------------------------------------------------------------
(* BigUint: multiplication *)

RECURSIVE mul_digit_from(_, _, _, _, _)
mul_digit_from(a, n, i, carry, prod) ==
    IF i > Len(a) THEN <<prod, carry>>
    ELSE LET hl == BigDigit_from_uint((a[i] * n + carry) % uint_modulus)
         IN  mul_digit_from(a, n, i + 1, hl[1], Append(prod, hl[2]))

mul_digit(a, n) ==
    IF n = 0 THEN BigUint_zero
    ELSE IF n = 1 THEN a
    ELSE LET pc2 == mul_digit_from(a, n, 1, 0, <<>>)
         IN  IF pc2[2] = 0 THEN new(pc2[1]) ELSE new(Append(pc2[1], pc2[2]))

\* the cut that leaves the whole of a in the high part
cut_at_whole(a, n) == <<a, BigUint_zero>>

\* (high part, low part)
cut_at(a, n) ==
    LET mid == uint_min(Len(a), n)
    IN  <<from_slice(SubSeq(a, mid + 1, Len(a))), from_slice(SubSeq(a, 1, mid))>>

\* (sign of a - b, |a - b|)
sub_sign(a, b) ==
    LET s == cmp(a, b)
    IN  IF s < 0 THEN <<s, sub(b, a)>>
        ELSE IF s > 0 THEN <<s, sub(a, b)>>
        ELSE <<0, BigUint_zero>>

RECURSIVE mul(_, _)

\* the middle term that always subtracts the product of the differences
mul_middle_subtracting(hh, ll, sn1, sn2) ==
    sub(add(hh, ll), mul(sn1[2], sn2[2]))

\* the block `let mm = { ... }`: sn1 is sub_sign(sHi, sLo), sn2 is
\* sub_sign(oHi, oLo)
mul_middle(hh, ll, sn1, sn2) ==
    IF sn1[1] * sn2[1] < 0 THEN add(add(hh, ll), mul(sn1[2], sn2[2]))
    ELSE IF sn1[1] * sn2[1] > 0 THEN sub(add(hh, ll), mul(sn1[2], sn2[2]))
    ELSE add(hh, ll)

\* mm of a * b on the Karatsuba path, the operands cut at half_len
mul_middle_of(sc, oc) ==
    mul_middle(mul(sc[1], oc[1]), mul(sc[2], oc[2]),
               sub_sign(sc[1], sc[2]), sub_sign(oc[1], oc[2]))

mul(a, b) ==
    IF IsFail(a) \/ IsFail(b) THEN Passed(a, b)
    ELSE IF is_zero(a) \/ is_zero(b) THEN BigUint_zero
    ELSE IF Len(a) = 1 THEN mul_digit(b, a[1])
    ELSE IF Len(b) = 1 THEN mul_digit(a, b[1])
    ELSE LET half_len == uint_max(Len(a), Len(b)) \div 2
             sc == cut_at(a, half_len)
             oc == cut_at(b, half_len)
             sHi == sc[1]
             sLo == sc[2]
             oHi == oc[1]
             oLo == oc[2]
             ll == mul(sLo, oLo)
             hh == mul(sHi, oHi)
             mm == mul_middle_of(sc, oc)
         IN  add(add(ll, shl_unit(mm, half_len)), shl_unit(hh, half_len * 2))

----------------------------------------------------------------------------
(* BigUint: division *)

\* the loop run until the top bit of n is set
RECURSIVE norm_shift_top_bit(_, _)
norm_shift_top_bit(n, shift) ==
    IF n < Pow(2, bits - 1) THEN norm_shift_top_bit((n * 2) % base, shift + 1)
    ELSE shift

\* no pass of the loop at all: the divisor is left as it is
norm_shift_none(n, shift) == shift

\* the loop `while n < (1 << BigDigit::bits - 2) { n <<= 1; shift += 1; }`
RECURSIVE norm_shift(_, _)
norm_shift(n, shift) ==
    IF n < Pow(2, bits - 2) THEN norm_shift((n * 2) % base, shift + 1)
    ELSE shift

\* the loop over the top n digits of a in div_estimate, most significant
\* first: the digits of the estimate, or FAIL at fail_unless!(di < base)
RECURSIVE estimate_digits(_, _, _, _, _)
estimate_digits(an, bn, i, carry, d) ==
    IF i = 0 THEN d
    ELSE LET ai == BigDigit_to_uint(carry, an[i])
             di == ai \div bn
         IN  IF ~(di < base) THEN FAIL
             ELSE estimate_digits(an, bn, i - 1, (ai % bn) % base, <<di>> \o d)

\* (d0, d_unit, b_unit)
div_estimate(a, b, n) ==
    IF Len(a) < n THEN <<BigUint_zero, BigUint_zero, a>>
    ELSE LET an == SubSeq(a, Len(a) - n + 1, Len(a))
             bn == b[Len(b)]
             d == estimate_digits(an, bn, Len(an), 0, <<>>)
             shift == (Len(a) - Len(an)) - (Len(b) - 1)
         IN  IF IsFail(d) THEN <<d, d, d>>
             ELSE IF shift = 0 THEN <<new(d), BigUint_one, b>>
             \* the uint went below zero: One::one().shl_unit(shift) asks
             \* for a vector of about uint::max_value digits
             ELSE IF shift < 0 THEN <<FAIL, FAIL, FAIL>>
             ELSE <<shl_unit(from_slice(d), shift),
                    shl_unit(BigUint_one, shift),
                    shl_unit(b, shift)>>

\* `if prod > r` in the place of `while prod > r`: one decrement at most
correct_estimate_once(d0, prod, r, d_unit, b_unit) ==
    IF IsFail(d0) \/ IsFail(prod) THEN <<Passed(d0, prod), Passed(d0, prod)>>
    ELSE IF cmp(prod, r) > 0 THEN <<sub(d0, d_unit), sub(prod, b_unit)>>
    ELSE <<d0, prod>>

\* the loop `while prod > r { d0 -= d_unit; prod -= b_unit; }`: (d0, prod)
RECURSIVE correct_estimate(_, _, _, _, _)
correct_estimate(d0, prod, r, d_unit, b_unit) ==
    IF IsFail(d0) \/ IsFail(prod) THEN <<Passed(d0, prod), Passed(d0, prod)>>
    ELSE IF cmp(prod, r) > 0
        THEN correct_estimate(sub(d0, d_unit), sub(prod, b_unit), r,
                              d_unit, b_unit)
    ELSE <<d0, prod>>

\* One pass of the loop `while r >= b` of divmod_inner, from the estimate
\* on.  The values computed in the pass are handed on as arguments:
\* est is (d0, d_unit, b_unit) as estimated, dp is (d0, prod) as corrected.
RECURSIVE divmod_loop(_, _, _, _)

divmod_accumulate(r, b, d, n, dp) ==
    IF IsFail(dp[1]) THEN <<dp[1], dp[1]>>
    ELSE IF is_zero(dp[1])
        \* n = 2; loop: with n = 2 already, the pass repeats forever
        THEN IF n = 2 THEN <<HANG, HANG>> ELSE divmod_loop(r, b, d, 2)
    ELSE divmod_loop(sub(r, dp[2]), b, add(d, dp[1]), 1)

divmod_correct(r, b, d, n, est) ==
    divmod_accumulate(r, b, d, n,
        correct_estimate(est[1], mul(b, est[1]), r, est[2], est[3]))

\* the loop `while r >= b` of divmod_inner, entered with (r, d, n): (d, r)
divmod_loop(r, b, d, n) ==
    IF IsFail(r) \/ IsFail(d) THEN <<Passed(r, d), Passed(r, d)>>
    ELSE IF ~(cmp(r, b) >= 0) THEN <<d, r>>
    ELSE divmod_correct(r, b, d, n, div_estimate(r, b, n))

divmod_inner(a, b) == divmod_loop(a, b, BigUint_zero, 1)

\* `return (d, m >> shift)` for (d, m) = dm
divmod_unshift(dm, shift) == <<dm[1], shr(dm[2], shift)>>

\* the general path of divmod, from fail_unless!(shift < BigDigit::bits) on
divmod_shifted(a, b, shift) ==
    IF ~(shift < bits) THEN <<FAIL, FAIL>>
    ELSE divmod_unshift(divmod_inner(shl(a, shift), shl(b, shift)), shift)

\* divmod with `s if s <= 0` in the place of `s if s < 0`
divmod_le(a, b) ==
    IF IsFail(a) \/ IsFail(b) THEN <<Passed(a, b), Passed(a, b)>>
    ELSE IF is_zero(b) THEN <<FAIL, FAIL>>
    ELSE IF is_zero(a) THEN <<BigUint_zero, BigUint_zero>>
    ELSE IF cmp(b, BigUint_one) = 0 THEN <<a, BigUint_zero>>
    ELSE IF cmp(a, b) <= 0 THEN <<BigUint_zero, a>>
    ELSE divmod_shifted(a, b, norm_shift(b[Len(b)], 0))

\* divmod with the test of self.is_zero() ahead of the test of
\* other.is_zero()
divmod_self_first(a, b) ==
    IF IsFail(a) \/ IsFail(b) THEN <<Passed(a, b), Passed(a, b)>>
    ELSE IF is_zero(a) THEN <<BigUint_zero, BigUint_zero>>
    ELSE IF is_zero(b) THEN <<FAIL, FAIL>>
    ELSE IF cmp(b, BigUint_one) = 0 THEN <<a, BigUint_zero>>
    ELSE IF cmp(a, b) < 0 THEN <<BigUint_zero, a>>
    ELSE IF cmp(a, b) = 0 THEN <<BigUint_one, BigUint_zero>>
    ELSE divmod_shifted(a, b, norm_shift(b[Len(b)], 0))

\* (quotient, remainder)
divmod(a, b) ==
    IF IsFail(a) \/ IsFail(b) THEN <<Passed(a, b), Passed(a, b)>>
    ELSE IF is_zero(b) THEN <<FAIL, FAIL>>
    ELSE IF is_zero(a) THEN <<BigUint_zero, BigUint_zero>>
    ELSE IF cmp(b, BigUint_one) = 0 THEN <<a, BigUint_zero>>
    ELSE IF cmp(a, b) < 0 THEN <<BigUint_zero, a>>
    ELSE IF cmp(a, b) = 0 THEN <<BigUint_one, BigUint_zero>>
    ELSE divmod_shifted(a, b, norm_shift(b[Len(b)], 0))

BigUint_div(a, b) == divmod(a, b)[1]

BigUint_modulo(a, b) == divmod(a, b)[2]

BigUint_quotrem(a, b) == divmod(a, b)

BigUint_quot(a, b) == BigUint_quotrem(a, b)[1]

BigUint_rem(a, b) == BigUint_quotrem(a, b)[2]

----------------------------------------------------------------------------
(* BigUint: conversion to uint *)

\* to_uint with the two digits handed to BigDigit::to_uint in the other
\* order
to_uint_swapped(a) ==
    IF Len(a) = 0 THEN 0
    ELSE IF Len(a) = 1 THEN a[1]
    ELSE IF Len(a) = 2 THEN BigDigit_to_uint(a[1], a[2])
    ELSE uint_max_value

to_uint(a) ==
    IF Len(a) = 0 THEN 0
    ELSE IF Len(a) = 1 THEN a[1]
    ELSE IF Len(a) = 2 THEN BigDigit_to_uint(a[2], a[1])
    ELSE uint_max_value

\* int::max_value and int::min_value: an int is as wide as a uint
int_max_value == (uint_modulus \div 2) - 1
int_min_value == 0 - (uint_modulus \div 2)

\* `u as int` of a native uint
uint_as_int(u) == IF u > int_max_value THEN u - uint_modulus ELSE u

\* IntConvertible::to_int for BigUint
BigUint_to_int(a) == uint_as_int(uint_min(to_uint(a), int_max_value))

----------------------------------------------------------------------------
(* Strings: sequences of characters *)

DigitChars == <<"0", "1", "2", "3", "4", "5", "6", "7",
                "8", "9", "a", "b", "c", "d", "e", "f">>

\* the string a failed task does not return
STR_FAIL == <<"fail!">>

\* the value of the character c as a digit of the radix, or -1
char_to_digit(c, rdx) ==
    IF \E i \in 1..rdx : DigitChars[i] = c
    THEN (CHOOSE i \in 1..rdx : DigitChars[i] = c) - 1
    ELSE -1

\* uint::parse_bytes: the number, or -1 for None
RECURSIVE uint_parse_from(_, _, _, _)
uint_parse_from(buf, rdx, i, accum) ==
    IF i > Len(buf) THEN accum
    ELSE IF char_to_digit(buf[i], rdx) < 0 THEN -1
    ELSE IF accum * rdx + char_to_digit(buf[i], rdx) > uint_max_value THEN -1
    ELSE uint_parse_from(buf, rdx, i + 1,
                         accum * rdx + char_to_digit(buf[i], rdx))

uint_parse_bytes(buf, rdx) ==
    IF Len(buf) = 0 THEN -1 ELSE uint_parse_from(buf, rdx, 1, 0)

\* uint::to_str_radix
RECURSIVE uint_to_str_radix(_, _)
uint_to_str_radix(n, rdx) ==
    IF n < rdx THEN <<DigitChars[n + 1]>>
    ELSE Append(uint_to_str_radix(n \div rdx, rdx), DigitChars[(n % rdx) + 1])

RECURSIVE trim_left_chars(_, _)
trim_left_chars(s, c) ==
    IF Len(s) > 0 /\ s[1] = c THEN trim_left_chars(Tail(s), c) ELSE s

----------------------------------------------------------------------------
(* BigUint: radix conversion *)

\* The source tabulates, for the widths 16 and 32, the largest power of the
\* radix that does not exceed BigDigit::base and its exponent; the model
\* computes the entry of the table for its own width.
RECURSIVE radix_unit_len(_, _)
radix_unit_len(rdx, len) ==
    IF Pow(rdx, len + 1) <= base THEN radix_unit_len(rdx, len + 1) ELSE len

\* (base, unit_len), or FAIL outside 2..16
get_radix_base(rdx) ==
    IF ~(1 < rdx /\ rdx <= 16) THEN FAIL
    ELSE <<Pow(rdx, radix_unit_len(rdx, 0)), radix_unit_len(rdx, 0)>>

\* The loop of parse_bytes, entered with (end, n, power): Some(n) or NONE.
\* d is what uint::parse_bytes returned for the chunk, n1 the sum with it.
RECURSIVE parse_loop(_, _, _, _, _, _, _)

parse_next(buf, rdx, base_num, unit_len, end, n1, power) ==
    IF end <= unit_len THEN n1
    ELSE parse_loop(buf, rdx, base_num, unit_len, end - unit_len, n1,
                    mul(power, base_num))

\* parse_chunk that passes over a chunk uint::parse_bytes refused
parse_chunk_skipping(buf, rdx, base_num, unit_len, end, n, power, d) ==
    IF d < 0 THEN parse_next(buf, rdx, base_num, unit_len, end, n, power)
    ELSE parse_next(buf, rdx, base_num, unit_len, end,
                    add(n, mul(BigUint_from_uint(d), power)), power)

parse_chunk(buf, rdx, base_num, unit_len, end, n, power, d) ==
    IF d < 0 THEN NONE
    ELSE parse_next(buf, rdx, base_num, unit_len, end,
                    add(n, mul(BigUint_from_uint(d), power)), power)

parse_loop(buf, rdx, base_num, unit_len, end, n, power) ==
    parse_chunk(buf, rdx, base_num, unit_len, end, n, power,
        uint_parse_bytes(
            SubSeq(buf, uint_max(end, unit_len) - unit_len + 1, end), rdx))

\* parse_bytes after get_radix_base; bl is (base, unit_len)
parse_with(buf, rdx, bl) ==
    IF IsFail(bl) THEN FAIL
    ELSE parse_loop(buf, rdx, BigUint_from_uint(bl[1]), bl[2], Len(buf),
                    BigUint_zero, BigUint_one)

parse_bytes(buf, rdx) == parse_with(buf, rdx, get_radix_base(rdx))

\* the loop `while r > divider` of convert_base, then the last chunk;
\* dr is the (d, r0) of the pass
RECURSIVE convert_loop(_, _, _)

convert_pass(divider, result, dr) ==
    IF IsFail(dr[1]) THEN dr[1]
    ELSE convert_loop(dr[1], divider, Append(result, to_uint(dr[2]) % base))

convert_loop(r, divider, result) ==
    IF IsFail(r) THEN r
    ELSE IF cmp(r, divider) > 0
        THEN convert_pass(divider, result, divmod(r, divider))
    ELSE IF is_not_zero(r) THEN Append(result, to_uint(r) % base)
    ELSE result

convert_base(n, cbase) == convert_loop(n, BigUint_from_uint(cbase), <<>>)

\* the closure of fill_concat on the chunks i..1: the padded texts, most
\* significant chunk first, or STR_FAIL when l - s.len() goes below zero
\* and vec::from_elem is asked for about uint::max_value characters
RECURSIVE fill_from(_, _, _, _)
fill_from(v, rdx, l, i) ==
    IF i = 0 THEN <<>>
    ELSE LET s == uint_to_str_radix(v[i], rdx)
             rest == fill_from(v, rdx, l, i - 1)
         IN  IF l - Len(s) < 0 \/ rest = STR_FAIL THEN STR_FAIL
             ELSE [j \in 1..(l - Len(s)) |-> "0"] \o s \o rest

fill_concat(v, rdx, l) ==
    IF Len(v) = 0 THEN <<"0">>
    ELSE LET t == fill_from(v, rdx, l, Len(v))
         IN  IF t = STR_FAIL THEN STR_FAIL ELSE trim_left_chars(t, "0")

\* fill_concat on what convert_base returned
fill_converted(chunks, rdx, l) ==
    IF IsFail(chunks) THEN STR_FAIL ELSE fill_concat(chunks, rdx, l)

\* to_str_radix after the check of the radix; bl is (base, max_len)
to_str_with(a, rdx, bl) ==
    IF bl[1] = base THEN fill_concat(a, rdx, bl[2])
    ELSE fill_converted(convert_base(a, bl[1]), rdx, bl[2])

to_str_radix(a, rdx) ==
    IF ~(1 < rdx /\ rdx <= 16) THEN STR_FAIL
    ELSE to_str_with(a, rdx, get_radix_base(rdx))

----------------------------------------------------------------------------
(* Sign *)

Sign_cmp(s, o) ==
    IF s = o THEN 0
    ELSE IF (s = "Minus" /\ o = "Zero") \/ (s = "Minus" /\ o = "Plus")
            \/ (s = "Zero" /\ o = "Plus") THEN -1
    ELSE 1

Sign_neg(s) ==
    IF s = "Minus" THEN "Plus" ELSE IF s = "Zero" THEN "Zero" ELSE "Minus"

----------------------------------------------------------------------------
(* BigInt: a record of sign and data.  A BigInt that a failed task did not *)
(* return carries the BigUint that was not returned as its data.           *)

BigInt_failed(d) == [sign |-> "Zero", data |-> d]

BI_IsFail(x) == IsFail(x.data)

\* from_biguint without the test of the sign and of the magnitude
from_biguint_unchecked(sign, data) ==
    IF IsFail(data) THEN BigInt_failed(data)
    ELSE [sign |-> sign, data |-> data]

from_biguint(sign, data) ==
    IF IsFail(data) THEN BigInt_failed(data)
    ELSE IF Sign_cmp(sign, "Zero") = 0 \/ is_zero(data)
        THEN [sign |-> "Zero", data |-> BigUint_zero]
    ELSE [sign |-> sign, data |-> data]

BigInt_zero == from_biguint("Zero", BigUint_zero)
BigInt_one == from_biguint("Plus", BigUint_one)

BigInt_new(sign, v) == from_biguint(sign, new(v))

BigInt_from_uint(n) ==
    IF n = 0 THEN BigInt_zero ELSE from_biguint("Plus", BigUint_from_uint(n))

BigInt_from_slice(sign, slice) == from_biguint(sign, from_slice(slice))

\* `n as uint` of a native int
int_as_uint(n) == IF n < 0 THEN n + uint_modulus ELSE n

BigInt_from_int(n) ==
    IF n > 0 THEN from_biguint("Plus", BigUint_from_uint(int_as_uint(n)))
    ELSE IF n < 0
        THEN from_biguint("Minus", BigUint_from_uint(
                 (uint_max_value - int_as_uint(n) + 1) % uint_modulus))
    ELSE BigInt_zero

BigInt_parse_bytes(buf, rdx) ==
    IF Len(buf) = 0 THEN [sign |-> "Zero", data |-> NONE]
    ELSE LET sign == IF buf[1] = "-" THEN "Minus" ELSE "Plus"
             start == IF buf[1] = "-" THEN 1 ELSE 0
             bu == parse_bytes(SubSeq(buf, start + 1, Len(buf)), rdx)
         IN  IF bu = NONE THEN [sign |-> "Zero", data |-> NONE]
             ELSE from_biguint(sign, bu)

\* neg that answers Plus whatever the sign
BigInt_neg_to_plus(a) ==
    IF BI_IsFail(a) THEN a ELSE from_biguint("Plus", a.data)

BigInt_neg(a) ==
    IF BI_IsFail(a) THEN a ELSE from_biguint(Sign_neg(a.sign), a.data)

BigInt_abs(a) ==
    IF BI_IsFail(a) THEN a ELSE from_biguint("Plus", a.data)

BigInt_is_zero(a) == Sign_cmp(a.sign, "Zero") = 0

BigInt_shl(a, rhs) == from_biguint(a.sign, shl(a.data, rhs))

BigInt_shr(a, rhs) == from_biguint(a.sign, shr(a.data, rhs))

RECURSIVE BigInt_add(_, _), BigInt_sub(_, _)

BigInt_add(a, b) ==
    IF BI_IsFail(a) THEN a
    ELSE IF BI_IsFail(b) THEN b
    ELSE IF a.sign = "Zero" THEN b
    ELSE IF b.sign = "Zero" THEN a
    ELSE IF a.sign = "Plus" /\ b.sign = "Plus"
        THEN from_biguint("Plus", add(a.data, b.data))
    ELSE IF a.sign = "Plus" /\ b.sign = "Minus"
        THEN BigInt_sub(a, BigInt_neg(b))
    ELSE IF a.sign = "Minus" /\ b.sign = "Plus"
        THEN BigInt_sub(b, BigInt_neg(a))
    ELSE BigInt_neg(BigInt_add(BigInt_neg(a), BigInt_neg(b)))

\* sub with self.data - other.data whichever of the two is larger
BigInt_sub_unordered(a, b) ==
    IF BI_IsFail(a) THEN a
    ELSE IF BI_IsFail(b) THEN b
    ELSE IF a.sign = "Zero" THEN BigInt_neg(b)
    ELSE IF b.sign = "Zero" THEN a
    ELSE IF a.sign = "Plus" /\ b.sign = "Plus"
        THEN from_biguint("Plus", sub(a.data, b.data))
    ELSE IF a.sign = "Plus" /\ b.sign = "Minus"
        THEN BigInt_add(a, BigInt_neg(b))
    ELSE IF a.sign = "Minus" /\ b.sign = "Plus"
        THEN BigInt_neg(BigInt_add(BigInt_neg(a), b))
    ELSE BigInt_sub(BigInt_neg(b), BigInt_neg(a))

BigInt_sub(a, b) ==
    IF BI_IsFail(a) THEN a
    ELSE IF BI_IsFail(b) THEN b
    ELSE IF a.sign = "Zero" THEN BigInt_neg(b)
    ELSE IF b.sign = "Zero" THEN a
    ELSE IF a.sign = "Plus" /\ b.sign = "Plus"
        THEN IF cmp(a.data, b.data) < 0
                 THEN from_biguint("Minus", sub(b.data, a.data))
             ELSE IF cmp(a.data, b.data) > 0
                 THEN from_biguint("Plus", sub(a.data, b.data))
             ELSE BigInt_zero
    ELSE IF a.sign = "Plus" /\ b.sign = "Minus"
        THEN BigInt_add(a, BigInt_neg(b))
    ELSE IF a.sign = "Minus" /\ b.sign = "Plus"
        THEN BigInt_neg(BigInt_add(BigInt_neg(a), b))
    ELSE BigInt_sub(BigInt_neg(b), BigInt_neg(a))

BigInt_mul(a, b) ==
    IF BI_IsFail(a) THEN a
    ELSE IF BI_IsFail(b) THEN b
    ELSE IF a.sign = "Zero" \/ b.sign = "Zero" THEN BigInt_zero
    ELSE IF a.sign = b.sign THEN from_biguint("Plus", mul(a.data, b.data))
    ELSE from_biguint("Minus", mul(a.data, b.data))

\* divmod after `let (d_ui, m_ui) = self.data.divmod(&other.data)`
BigInt_divmod_signed(a, b, dm_ui) ==
    LET d == from_biguint("Plus", dm_ui[1])
        m == from_biguint("Plus", dm_ui[2])
    IN  IF IsFail(dm_ui[1])
            THEN <<BigInt_failed(dm_ui[1]), BigInt_failed(dm_ui[1])>>
        ELSE IF b.sign = "Zero"
            THEN <<BigInt_failed(FAIL), BigInt_failed(FAIL)>>
        ELSE IF b.sign = "Plus" /\ a.sign \in {"Plus", "Zero"} THEN <<d, m>>
        ELSE IF b.sign = "Minus" /\ a.sign \in {"Plus", "Zero"}
            THEN IF BigInt_is_zero(m) THEN <<BigInt_neg(d), BigInt_zero>>
                 ELSE <<BigInt_sub(BigInt_neg(d), BigInt_one),
                        BigInt_add(m, b)>>
        ELSE IF a.sign = "Minus" /\ b.sign = "Plus"
            THEN IF BigInt_is_zero(m) THEN <<BigInt_neg(d), BigInt_zero>>
                 ELSE <<BigInt_sub(BigInt_neg(d), BigInt_one),
                        BigInt_sub(b, m)>>
        ELSE <<d, BigInt_neg(m)>>

\* (d, m)
BigInt_divmod(a, b) == BigInt_divmod_signed(a, b, divmod(a.data, b.data))

\* quotrem after `let (q_ui, r_ui) = self.data.quotrem(&other.data)`
BigInt_quotrem_signed(a, b, qr_ui) ==
    LET q == from_biguint("Plus", qr_ui[1])
        r == from_biguint("Plus", qr_ui[2])
    IN  IF IsFail(qr_ui[1])
            THEN <<BigInt_failed(qr_ui[1]), BigInt_failed(qr_ui[1])>>
        ELSE IF b.sign = "Zero"
            THEN <<BigInt_failed(FAIL), BigInt_failed(FAIL)>>
        ELSE IF b.sign = "Plus" /\ a.sign \in {"Plus", "Zero"} THEN <<q, r>>
        ELSE IF b.sign = "Minus" /\ a.sign \in {"Plus", "Zero"}
            THEN <<BigInt_neg(q), r>>
        ELSE IF a.sign = "Minus" /\ b.sign = "Plus"
            THEN <<BigInt_neg(q), BigInt_neg(r)>>
        ELSE <<q, BigInt_neg(r)>>

\* (q, r)
BigInt_quotrem(a, b) ==
    BigInt_quotrem_signed(a, b, BigUint_quotrem(a.data, b.data))

BigInt_div(a, b) == BigInt_divmod(a, b)[1]

BigInt_modulo(a, b) == BigInt_divmod(a, b)[2]

BigInt_quot(a, b) == BigInt_quotrem(a, b)[1]

BigInt_rem(a, b) == BigInt_quotrem(a, b)[2]

\* to_uint that gives the magnitude for Minus as well
BigInt_to_uint_of_magnitude(a) ==
    IF a.sign = "Zero" THEN 0 ELSE to_uint(a.data)

BigInt_to_uint(a) ==
    IF a.sign = "Plus" THEN to_uint(a.data)
    ELSE IF a.sign = "Zero" THEN 0
    ELSE 0

\* cmp that compares two negatives as it compares two positives
BigInt_cmp_by_magnitude(a, b) ==
    IF Sign_cmp(a.sign, b.sign) < 0 THEN -1
    ELSE IF Sign_cmp(a.sign, b.sign) > 0 THEN 1
    ELSE IF a.sign = "Zero" THEN 0
    ELSE cmp(a.data, b.data)

\* Sign's own lt and gt go through Sign::cmp
BigInt_cmp(a, b) ==
    IF Sign_cmp(a.sign, b.sign) < 0 THEN -1
    ELSE IF Sign_cmp(a.sign, b.sign) > 0 THEN 1
    ELSE IF a.sign = "Zero" THEN 0
    ELSE IF a.sign = "Plus" THEN cmp(a.data, b.data)
    ELSE 0 - cmp(a.data, b.data)

\* Eq and Ord for BigInt
BigInt_ord(a, b) ==
    [eq |-> BigInt_cmp(a, b) = 0, ne |-> BigInt_cmp(a, b) # 0,
     lt |-> BigInt_cmp(a, b) < 0, le |-> BigInt_cmp(a, b) <= 0,
     ge |-> BigInt_cmp(a, b) >= 0, gt |-> BigInt_cmp(a, b) > 0]

BigInt_to_str_radix(a, rdx) ==
    IF a.sign = "Plus" THEN to_str_radix(a.data, rdx)
    ELSE IF a.sign = "Zero" THEN <<"0">>
    ELSE IF to_str_radix(a.data, rdx) = STR_FAIL THEN STR_FAIL
    ELSE <<"-">> \o to_str_radix(a.data, rdx)

\* IntConvertible::to_int for BigInt
BigInt_to_int(a) ==
    IF a.sign = "Plus"
        THEN uint_as_int(uint_min(BigInt_to_uint(a), int_max_value))
    ELSE IF a.sign = "Zero" THEN 0
    ELSE uint_as_int(uint_min(BigInt_to_uint(BigInt_neg(a)),
                              (int_max_value + 1) % uint_modulus))

----------------------------------------------------------------------------
(* The numbers the digit vectors stand for *)

\* a + b * base + c * base^2 for the data <<a, b, c>>
RECURSIVE Val(_)
Val(a) == IF Len(a) = 0 THEN 0 ELSE a[1] + base * Val(Tail(a))

\* the normalized digit vector of the number n
RECURSIVE Digits(_)
Digits(n) == IF n = 0 THEN <<>> ELSE <<n % base>> \o Digits(n \div base)

\* no trailing zero digit; zero is the empty vector
Normalized(a) ==
    /\ \A i \in 1..Len(a) : a[i] \in 0..(base - 1)
    /\ Len(a) > 0 => a[Len(a)] # 0

Builds == {"masked", "lost"}

NoPair == <<NONE, NONE>>
\* no pass of divmod_inner was made
NoEstimate == <<NONE, NONE, NONE>>
\* no comparison was made
NoOrdering == [cmp |-> 0, rcmp |-> 0, ops |-> <<>>]
NoInt == [sign |-> "Zero", data |-> NONE]
NoIntPair == <<NoInt, NoInt>>

\* what an operation that returns one value leaves in the pair returned
Single(x) == <<x, IF IsFail(x) THEN x ELSE NONE>>
ISingle(x) == <<x, IF BI_IsFail(x) THEN x ELSE NoInt>>

\* the number a BigInt stands for
IVal(x) == IF x.sign = "Minus" THEN 0 - Val(x.data) ELSE Val(x.data)

\* the BigInt of the number n
IntOf(n) ==
    IF n = 0 THEN [sign |-> "Zero", data |-> <<>>]
    ELSE IF n < 0 THEN [sign |-> "Minus", data |-> Digits(0 - n)]
    ELSE [sign |-> "Plus", data |-> Digits(n)]

Signs == {"Minus", "Zero", "Plus"}

\* the digits of the arrays handed to the constructors of the calculators
VecDigits == {0, 1, base - 1}

RECURSIVE SeqsUpTo(_, _)
SeqsUpTo(S, n) ==
    IF n = 0 THEN {<<>>}
    ELSE LET shorter == SeqsUpTo(S, n - 1)
         IN  shorter \cup {Append(v, d) : v \in shorter, d \in S}

\* the uints handed to from_uint in the calculators
UintArgs == {0, 1, base - 1, base, base + 1, uint_max_value}

\* the strings and radixes handed to parse_bytes in the calculators
ParseChars == {"0", "1", "f", "-"}
ParseRadixes == {2, 10, 16}

\* the digit arrays handed to the constructors of the calculators
CalcVecs == SeqsUpTo(VecDigits, MaxVec)

\* the digit arrays drawn for the construction from a digit array
SliceDigits == {0, 1, base - 1}
Slices == SeqsUpTo(SliceDigits, MaxSlice)

\* what parse_bytes returns for the strings and radixes of the calculators
ParseBufs == SeqsUpTo(ParseChars, MaxStr)
ParsedBigUints ==
    {parse_bytes(buf, rdx) : buf \in ParseBufs, rdx \in ParseRadixes}
ParsedBigInts ==
    {BigInt_parse_bytes(buf, rdx) : buf \in ParseBufs, rdx \in ParseRadixes}

----------------------------------------------------------------------------
(* Unsigned division: the operands are drawn, one operation is applied *)

InitDiv ==
    /\ over_shift \in Builds
    /\ ordering = NoOrdering
    /\ estimate = NoEstimate /\ corrected = NoPair
    /\ arg = 0
    /\ ret = 0
    /\ pc = "ready"
    /\ op = "none"
    /\ ua \in {Digits(n) : n \in 0..MaxA}
    /\ ub \in {Digits(n) : n \in 0..MaxB}
    /\ ur = NoPair
    /\ vin = <<>>
    /\ sgn = "Zero"
    /\ ia = BigInt_zero /\ ib = BigInt_zero /\ ir = NoIntPair
    /\ radix = 0 /\ str = <<>> /\ parsed = NONE

Returned(name, pair) ==
    /\ pc = "ready"
    /\ op' = name
    /\ ur' = pair
    /\ pc' = IF IsFail(pair[1]) THEN "failed" ELSE "done"
    /\ UNCHANGED <<estimate, corrected, ordering, over_shift, arg, ret, ua, ub, vin, sgn, ia, ib, ir, radix,
                   str, parsed>>

UDivmod == Returned("divmod", divmod(ua, ub))

\* The general path of divmod up to the call of divmod_inner: `shift` is
\* counted and both operands are shifted
UNormalizeBy(shift) ==
    /\ op' = "normalize"
    /\ ret' = shift
    /\ ur' = <<shl(ua, shift), shl(ub, shift)>>
    /\ pc' = IF shift < bits THEN "normalized" ELSE "failed"
    /\ UNCHANGED <<estimate, corrected, ordering, over_shift, arg, ua, ub,
                   vin, sgn, ia, ib, ir, radix, str, parsed>>

UNormalize ==
    /\ pc = "ready"
    /\ is_not_zero(ub) /\ is_not_zero(ua)
    /\ cmp(ub, BigUint_one) # 0
    /\ cmp(ua, ub) > 0
    /\ UNormalizeBy(norm_shift(ub[Len(ub)], 0))

NextDiv == UDivmod \/ UNormalize

SpecDiv == InitDiv /\ [][NextDiv]_vars

----------------------------------------------------------------------------
(* divmod_inner pass by pass: from the operands as normalized, every pass  *)
(* of the loop `while r >= b` is one step.  ur is (d, r), arg is n, ret is *)
(* `shift`; b is the divisor as shifted.  A pass that changes nothing is   *)
(* repeated forever: pc is "hung".                                         *)

\* `let mut r = a; let mut d = Zero::zero(); let mut n = 1;`
DEnter ==
    /\ pc = "normalized"
    /\ op' = "divmod_inner"
    /\ ur' = <<BigUint_zero, ur[1]>>
    /\ arg' = 1
    /\ pc' = "loop"
    /\ UNCHANGED <<estimate, corrected, ordering, over_shift, ret, ua, ub,
                   vin, sgn, ia, ib, ir, radix, str, parsed>>

\* the end of a pass: est is (d0, d_unit, b_unit) as estimated, dp is
\* (d0, prod) after `while prod > r`, dr is (d, r) after `d += d0; r -= prod`
DPassEnd(est, dp, dr) ==
    /\ op' = "pass"
    /\ estimate' = est
    /\ corrected' = dp
    /\ ur' = IF IsFail(dp[1]) \/ is_zero(dp[1]) THEN ur ELSE dr
    /\ arg' = IF IsFail(dp[1]) THEN arg
              ELSE IF is_zero(dp[1]) THEN 2
              ELSE 1
    /\ pc' = IF IsFail(dp[1]) \/ (~is_zero(dp[1]) /\ IsFail(dr[2]))
                 THEN "failed"
             ELSE IF is_zero(dp[1]) /\ arg = 2 THEN "hung"
             ELSE "loop"
    /\ UNCHANGED <<ordering, over_shift, ret, ua, ub, vin, sgn, ia, ib, ir,
                   radix, str, parsed>>

\* one pass of `while r >= b`, b being the divisor shifted
DPassOn(b) ==
    /\ cmp(ur[2], b) >= 0
    /\ \E est \in {div_estimate(ur[2], b, arg)} :
       \E dp \in {correct_estimate(est[1], mul(b, est[1]), ur[2],
                                   est[2], est[3])} :
       \E dr \in {<<add(ur[1], dp[1]), sub(ur[2], dp[2])>>} :
           DPassEnd(est, dp, dr)

DPass == pc = "loop" /\ DPassOn(shl(ub, ret))

\* the loop ends: `return (d, m >> shift)`
DReturn ==
    /\ pc = "loop"
    /\ ~(cmp(ur[2], shl(ub, ret)) >= 0)
    /\ op' = "divmod"
    /\ ur' = divmod_unshift(ur, ret)
    /\ pc' = "done"
    /\ UNCHANGED <<estimate, corrected, ordering, over_shift, arg, ret, ua,
                   ub, vin, sgn, ia, ib, ir, radix, str, parsed>>

NextInner == UNormalize \/ DEnter \/ DPass \/ DReturn

SpecInner == InitDiv /\ [][NextInner]_vars

----------------------------------------------------------------------------
(* Radix conversion: a value is formatted, the string is parsed back *)

InitRadix ==
    /\ over_shift \in Builds
    /\ ordering = NoOrdering
    /\ estimate = NoEstimate /\ corrected = NoPair
    /\ arg = 0
    /\ ret = 0
    /\ pc = "ready"
    /\ op = "none"
    /\ ua \in {Digits(n) : n \in 0..MaxX}
    /\ ub = <<>>
    /\ ur = NoPair
    /\ vin = <<>>
    /\ sgn = "Zero"
    /\ ia = BigInt_zero /\ ib = BigInt_zero /\ ir = NoIntPair
    /\ radix \in 2..16
    /\ str = <<>>
    /\ parsed = NONE

\* x.to_str_radix(radix)
UToStrRadix ==
    /\ pc = "ready"
    /\ op' = "to_str_radix"
    /\ str' = to_str_radix(ua, radix)
    /\ pc' = IF str' = STR_FAIL THEN "failed" ELSE "formatted"
    /\ UNCHANGED <<estimate, corrected, ordering, over_shift, arg, ret, ua, ub, ur, vin, sgn, ia, ib, ir,
                   radix, parsed>>

\* BigUint::from_str_radix(s, radix) on the string returned
UFromStrRadix ==
    /\ pc = "formatted"
    /\ op' = "from_str_radix"
    /\ parsed' = parse_bytes(str, radix)
    /\ pc' = IF IsFail(parsed') THEN "failed" ELSE "done"
    /\ UNCHANGED <<estimate, corrected, ordering, over_shift, arg, ret, ua, ub, ur, vin, sgn, ia, ib, ir,
                   radix, str>>

\* convert_base(x, base) of to_str_radix, for a radix whose chunk base is
\* not BigDigit::base: the chunks are handed to fill_concat
UConvertBase ==
    /\ pc = "ready"
    /\ get_radix_base(radix)[1] # base
    /\ op' = "convert_base"
    /\ vin' = convert_base(ua, get_radix_base(radix)[1])
    /\ pc' = IF IsFail(vin') THEN "failed" ELSE "converted"
    /\ UNCHANGED <<estimate, corrected, ordering, over_shift, arg, ret, ua, ub, ur, sgn, ia, ib,
                   ir, radix, str, parsed>>

NextRadix == UToStrRadix \/ UFromStrRadix \/ UConvertBase

SpecRadix == InitRadix /\ [][NextRadix]_vars

----------------------------------------------------------------------------
(* The BigUint calculator: two registers hold the values produced so far;  *)
(* every public constructor and operation returns its result in ur and     *)
(* puts it in ua.  A value above MaxReg is returned and ends the run.      *)

InitU ==
    /\ over_shift \in Builds
    /\ ordering = NoOrdering
    /\ estimate = NoEstimate /\ corrected = NoPair
    /\ arg = 0
    /\ ret = 0
    /\ pc = "ready"
    /\ op = "none"
    /\ ua = BigUint_zero
    /\ ub = BigUint_zero
    /\ ur = NoPair
    /\ vin = <<>>
    /\ sgn = "Zero"
    /\ ia = BigInt_zero /\ ib = BigInt_zero /\ ir = NoIntPair
    /\ radix = 0 /\ str = <<>> /\ parsed = NONE

Kept(x) == ~IsFail(x) /\ Val(x) <= MaxReg

\* the result x of the operation `name` is returned and replaces ua, or
\* the task fails
Produced(name, x, v) ==
    /\ pc = "ready"
    /\ op' = name
    /\ vin' = v
    /\ pc' = IF IsFail(x) THEN "failed"
             ELSE IF Kept(x) THEN "ready" ELSE "over"
    /\ ur' = Single(x)
    /\ ua' = IF Kept(x) THEN x ELSE ua
    /\ UNCHANGED <<estimate, corrected, ordering, over_shift, arg, ret, ub, sgn, ia, ib, ir, radix, str,
                   parsed>>

CNew == \E v \in CalcVecs : Produced("new", new(v), v)

CFromSlice ==
    \E v \in CalcVecs :
        Produced("from_slice", from_slice(v), v)

CFromUint ==
    \E n \in UintArgs :
        Produced("from_uint", BigUint_from_uint(n), <<>>)

\* a None is no BigUint
CParseBytes ==
    \E x \in ParsedBigUints \ {NONE} : Produced("parse_bytes", x, <<>>)

CAdd == Produced("add", add(ua, ub), <<>>)

CSub == Produced("sub", sub(ua, ub), <<>>)

CMul == Produced("mul", mul(ua, ub), <<>>)

\* the quotient replaces ua and the remainder ub
ProducedPair(name, dm) ==
    /\ pc = "ready"
    /\ op' = name
    /\ vin' = <<>>
    /\ pc' = IF IsFail(dm[1]) THEN "failed" ELSE "ready"
    /\ ur' = dm
    /\ ua' = IF IsFail(dm[1]) THEN ua ELSE dm[1]
    /\ ub' = IF IsFail(dm[1]) THEN ub ELSE dm[2]
    /\ UNCHANGED <<estimate, corrected, ordering, over_shift, arg, ret, sgn, ia, ib, ir, radix, str, parsed>>

CDivmod == ProducedPair("divmod", divmod(ua, ub))

CShl == \E n \in 0..MaxShift : Produced("shl", shl(ua, n), <<>>)

CShr == \E n \in 0..MaxShift : Produced("shr", shr(ua, n), <<>>)

\* the value produced last becomes the second operand
CSwap ==
    /\ pc = "ready"
    /\ op' = "swap"
    /\ vin' = <<>>
    /\ ua' = ub
    /\ ub' = ua
    /\ ur' = NoPair
    /\ UNCHANGED <<estimate, corrected, ordering, over_shift, arg, ret, pc, sgn, ia, ib, ir, radix, str,
                   parsed>>

NextU ==
    \/ CNew \/ CFromSlice \/ CFromUint \/ CParseBytes
    \/ CAdd \/ CSub \/ CMul \/ CDivmod \/ CShl \/ CShr \/ CSwap

SpecU == InitU /\ [][NextU]_vars

----------------------------------------------------------------------------
(* Construction from a digit array: the array is drawn, a constructor is   *)
(* applied                                                                 *)

InitNew ==
    /\ over_shift \in Builds
    /\ ordering = NoOrdering
    /\ estimate = NoEstimate /\ corrected = NoPair
    /\ arg = 0
    /\ ret = 0
    /\ pc = "ready"
    /\ op = "none"
    /\ ua = BigUint_zero
    /\ ub = BigUint_zero
    /\ ur = NoPair
    /\ vin \in Slices
    /\ sgn = "Zero"
    /\ ia = BigInt_zero /\ ib = BigInt_zero /\ ir = NoIntPair
    /\ radix = 0 /\ str = <<>> /\ parsed = NONE

Constructed(name, x) ==
    /\ pc = "ready"
    /\ op' = name
    /\ ua' = x
    /\ pc' = "done"
    /\ UNCHANGED <<estimate, corrected, ordering, over_shift, arg, ret, ub, ur, vin, sgn, ia, ib, ir, radix,
                   str, parsed>>

NNew == Constructed("new", new(vin))

NFromSlice == Constructed("from_slice", from_slice(vin))

NextNew == NNew \/ NFromSlice

SpecNew == InitNew /\ [][NextNew]_vars

----------------------------------------------------------------------------
(* Signed division: the operands are drawn, one operation is applied to    *)
(* the BigInts or to their magnitudes                                      *)

InitSDiv ==
    /\ over_shift \in Builds
    /\ ordering = NoOrdering
    /\ estimate = NoEstimate /\ corrected = NoPair
    /\ arg = 0
    /\ ret = 0
    /\ pc = "ready"
    /\ op = "none"
    /\ ia \in {IntOf(n) : n \in (0 - MaxI)..MaxI}
    /\ ib \in {IntOf(n) : n \in (0 - MaxI)..MaxI}
    /\ ua = ia.data
    /\ ub = ib.data
    /\ ur = NoPair
    /\ vin = <<>>
    /\ sgn = "Zero"
    /\ ir = NoIntPair
    /\ radix = 0 /\ str = <<>> /\ parsed = NONE

IReturned(name, pair) ==
    /\ pc = "ready"
    /\ op' = name
    /\ ir' = pair
    /\ pc' = IF BI_IsFail(pair[1]) THEN "failed" ELSE "done"
    /\ UNCHANGED <<estimate, corrected, ordering, over_shift, arg, ret, ua, ub, ur, vin, sgn, ia, ib, radix,
                   str, parsed>>

UDiv == Returned("div", Single(BigUint_div(ua, ub)))
UModulo == Returned("modulo", Single(BigUint_modulo(ua, ub)))
UQuot == Returned("quot", Single(BigUint_quot(ua, ub)))
URem == Returned("rem", Single(BigUint_rem(ua, ub)))
UQuotrem == Returned("quotrem", BigUint_quotrem(ua, ub))

IDivmod == IReturned("BigInt::divmod", BigInt_divmod(ia, ib))
IDiv == IReturned("BigInt::div", ISingle(BigInt_div(ia, ib)))
IModulo == IReturned("BigInt::modulo", ISingle(BigInt_modulo(ia, ib)))
IQuotrem == IReturned("BigInt::quotrem", BigInt_quotrem(ia, ib))
IQuot == IReturned("BigInt::quot", ISingle(BigInt_quot(ia, ib)))
IRem == IReturned("BigInt::rem", ISingle(BigInt_rem(ia, ib)))

NextSDiv ==
    \/ UDivmod \/ UDiv \/ UModulo \/ UQuotrem \/ UQuot \/ URem
    \/ IDivmod \/ IDiv \/ IModulo \/ IQuotrem \/ IQuot \/ IRem

SpecSDiv == InitSDiv /\ [][NextSDiv]_vars

----------------------------------------------------------------------------
(* The BigInt calculator: the register ia holds the value produced last;   *)
(* every public constructor and operation returns its result in ir and     *)
(* puts it in ia, the second operand of a binary operation being a BigInt  *)
(* built from a native int.  A value of magnitude above MaxIReg is         *)
(* returned and ends the run.                                              *)

InitI ==
    /\ over_shift \in Builds
    /\ ordering = NoOrdering
    /\ estimate = NoEstimate /\ corrected = NoPair
    /\ arg = 0
    /\ ret = 0
    /\ pc = "ready"
    /\ op = "none"
    /\ ua = BigUint_zero
    /\ ub = BigUint_zero
    /\ ur = NoPair
    /\ vin = <<>>
    /\ sgn = "Zero"
    /\ ia = BigInt_zero /\ ib = BigInt_zero /\ ir = NoIntPair
    /\ radix = 0 /\ str = <<>> /\ parsed = NONE

IKept(x) == ~BI_IsFail(x) /\ Val(x.data) <= MaxIReg

\* the pair `both` returned by the operation `name`, given sign s and
\* digits v: its first value replaces ia, or the task fails
IProduced(name, both, s, v) ==
    /\ pc = "ready"
    /\ op' = name
    /\ vin' = v
    /\ sgn' = s
    /\ pc' = IF BI_IsFail(both[1]) THEN "failed"
             ELSE IF IKept(both[1]) THEN "ready" ELSE "over"
    /\ ir' = both
    /\ ia' = IF IKept(both[1]) THEN both[1] ELSE ia
    /\ UNCHANGED <<estimate, corrected, ordering, over_shift, arg, ret, ua, ub, ur, ib, radix, str, parsed>>

IntOperands == {BigInt_from_int(n) : n \in (0 - MaxIReg)..MaxIReg}

ZNew ==
    \E s \in Signs, v \in CalcVecs :
        IProduced("BigInt::new", ISingle(BigInt_new(s, v)), s, v)

ZFromBiguint ==
    \E s \in Signs, n \in 0..MaxIReg :
        IProduced("BigInt::from_biguint",
                  ISingle(from_biguint(s, Digits(n))), s, Digits(n))

ZFromSlice ==
    \E s \in Signs, v \in CalcVecs :
        IProduced("BigInt::from_slice", ISingle(BigInt_from_slice(s, v)), s,
                  v)

ZFromUint ==
    \E n \in UintArgs :
        IProduced("BigInt::from_uint", ISingle(BigInt_from_uint(n)), "Zero",
                  <<>>)

ZFromInt ==
    \E n \in (0 - MaxIReg - 1)..(MaxIReg + 1) :
        IProduced("BigInt::from_int", ISingle(BigInt_from_int(n)), "Zero",
                  <<>>)

\* a None is no BigInt
ZParseBytes ==
    \E x \in ParsedBigInts \ {NoInt} :
        IProduced("BigInt::parse_bytes", ISingle(x), "Zero", <<>>)

ZAdd ==
    \E b \in IntOperands :
        IProduced("BigInt::add", ISingle(BigInt_add(ia, b)), "Zero", <<>>)

ZSub ==
    \E b \in IntOperands :
        IProduced("BigInt::sub", ISingle(BigInt_sub(ia, b)), "Zero", <<>>)

ZMul ==
    \E b \in IntOperands :
        IProduced("BigInt::mul", ISingle(BigInt_mul(ia, b)), "Zero", <<>>)

ZNeg == IProduced("BigInt::neg", ISingle(BigInt_neg(ia)), "Zero", <<>>)

ZAbs == IProduced("BigInt::abs", ISingle(BigInt_abs(ia)), "Zero", <<>>)

ZShl ==
    \E n \in 0..MaxShift :
        IProduced("BigInt::shl", ISingle(BigInt_shl(ia, n)), "Zero", <<>>)

ZShr ==
    \E n \in 0..MaxShift :
        IProduced("BigInt::shr", ISingle(BigInt_shr(ia, n)), "Zero", <<>>)

\* the first of the pair returned replaces ia
IProducedPair(name, both) == IProduced(name, both, "Zero", <<>>)

ZDivmod ==
    \E b \in IntOperands :
        IProducedPair("BigInt::divmod", BigInt_divmod(ia, b))

ZQuotrem ==
    \E b \in IntOperands :
        IProducedPair("BigInt::quotrem", BigInt_quotrem(ia, b))

NextI ==
    \/ ZNew \/ ZFromBiguint \/ ZFromSlice \/ ZFromUint \/ ZFromInt
    \/ ZParseBytes \/ ZAdd \/ ZSub \/ ZMul \/ ZNeg \/ ZAbs \/ ZShl \/ ZShr
    \/ ZDivmod \/ ZQuotrem

SpecI == InitI /\ [][NextI]_vars

----------------------------------------------------------------------------
(* Shifts: a value and a shift amount are drawn; the value is shifted      *)
(* right, or shifted left and the result shifted back                      *)

InitShift ==
    /\ over_shift \in Builds
    /\ ordering = NoOrdering
    /\ estimate = NoEstimate /\ corrected = NoPair
    /\ arg \in 0..MaxShift
    /\ ret = 0
    /\ pc = "ready"
    /\ op = "none"
    /\ ua \in {Digits(n) : n \in 0..MaxSh}
    /\ ub = <<>>
    /\ ur = NoPair
    /\ vin = <<>>
    /\ sgn = "Zero"
    /\ ia = BigInt_zero /\ ib = BigInt_zero /\ ir = NoIntPair
    /\ radix = 0 /\ str = <<>> /\ parsed = NONE

\* the value x returned by the shift `name`; then the run is at `at`
Shifted(name, x, at) ==
    /\ op' = name
    /\ ub' = x
    /\ pc' = IF IsFail(x) THEN "failed" ELSE at
    /\ UNCHANGED <<estimate, corrected, ordering, over_shift, arg, ret, ua, ur, vin, sgn, ia, ib, ir, radix,
                   str, parsed>>

\* x >> n
SShr == pc = "ready" /\ Shifted("shr", shr(ua, arg), "done")

\* x << n
SShl == pc = "ready" /\ Shifted("shl", shl(ua, arg), "shifted")

\* (x << n) >> n
SShrBack == pc = "shifted" /\ Shifted("shl_shr", shr(ub, arg), "done")

NextShift == SShr \/ SShl \/ SShrBack

SpecShift == InitShift /\ [][NextShift]_vars

----------------------------------------------------------------------------
(* Conversions to and from the native integers: either a BigInt is drawn   *)
(* (ua is its magnitude) and converted, or a native integer is drawn,      *)
(* made a BigUint or BigInt (kept in ub or ib) and converted back          *)

\* the magnitudes drawn: the small ones and those around int::max_value,
\* uint::max_value and the first value of three digits
ConvMagnitudes ==
    (0..MaxConv)
        \cup ((int_max_value - 2)..(int_max_value + 3))
        \cup ((uint_max_value - 2)..(uint_max_value + 3))
        \cup {uint_modulus * (base - 1), uint_modulus * base - 1}

\* the native integers drawn, ints and uints
ConvNatives == int_min_value..uint_max_value

InitConv ==
    /\ over_shift \in Builds
    /\ ordering = NoOrdering
    /\ estimate = NoEstimate /\ corrected = NoPair
    /\ ret = 0
    /\ pc = "ready"
    /\ op = "none"
    /\ \/ /\ arg = 0
          /\ ia \in {IntOf(n) : n \in ConvMagnitudes}
                    \cup {IntOf(0 - n) : n \in ConvMagnitudes}
       \/ /\ arg \in ConvNatives
          /\ ia = BigInt_zero
    /\ ua = ia.data
    /\ ub = <<>>
    /\ ur = NoPair
    /\ vin = <<>>
    /\ sgn = "Zero"
    /\ ib = BigInt_zero /\ ir = NoIntPair
    /\ radix = 0 /\ str = <<>> /\ parsed = NONE

\* the native integer n returned by the conversion `name` of the BigUint
\* u or the BigInt i
Converted(name, n, u, i) ==
    /\ pc = "ready"
    /\ op' = name
    /\ ret' = n
    /\ ub' = u
    /\ ib' = i
    /\ pc' = "done"
    /\ UNCHANGED <<estimate, corrected, ordering, over_shift, arg, ua, ur, vin, sgn, ia, ir, radix, str,
                   parsed>>

KToUint == Converted("to_uint", to_uint(ua), ub, ib)

KToInt == Converted("to_int", BigUint_to_int(ua), ub, ib)

\* BigUint::from_uint(u).to_uint()
KFromUintToUint ==
    /\ arg >= 0
    /\ Converted("from_uint.to_uint", to_uint(BigUint_from_uint(arg)),
                 BigUint_from_uint(arg), ib)

KIntToUint == Converted("BigInt::to_uint", BigInt_to_uint(ia), ub, ib)

KIntToInt == Converted("BigInt::to_int", BigInt_to_int(ia), ub, ib)

\* BigInt::from_uint(u).to_uint()
KIntFromUintToUint ==
    /\ arg >= 0
    /\ Converted("BigInt::from_uint.to_uint",
                 BigInt_to_uint(BigInt_from_uint(arg)), ub,
                 BigInt_from_uint(arg))

\* from_int(i).to_int()
KIntFromIntToInt ==
    /\ arg <= int_max_value
    /\ Converted("BigInt::from_int.to_int",
                 BigInt_to_int(BigInt_from_int(arg)), ub,
                 BigInt_from_int(arg))

NextConv ==
    \/ KToUint \/ KToInt \/ KFromUintToUint
    \/ KIntToUint \/ KIntToInt \/ KIntFromUintToUint \/ KIntFromIntToInt

SpecConv == InitConv /\ [][NextConv]_vars

----------------------------------------------------------------------------
(* Parsing: a string and a radix are drawn, the string is parsed as a      *)
(* BigUint (the result is in parsed) or as a BigInt (in ib)                *)

\* digits of every radix, digits of the larger ones only, the sign, and a
\* character that is a digit of no radix
ParsedChars == {"0", "1", "a", "-", "z"}

ParsedStrings == SeqsUpTo(ParsedChars, MaxParse)

InitParse ==
    /\ over_shift \in Builds
    /\ ordering = NoOrdering
    /\ estimate = NoEstimate /\ corrected = NoPair
    /\ arg = 0
    /\ ret = 0
    /\ pc = "ready"
    /\ op = "none"
    /\ ua = <<>>
    /\ ub = <<>>
    /\ ur = NoPair
    /\ vin = <<>>
    /\ sgn = "Zero"
    /\ ia = BigInt_zero /\ ib = BigInt_zero /\ ir = NoIntPair
    /\ radix \in 2..16
    /\ str \in ParsedStrings
    /\ parsed = NONE

\* BigUint::parse_bytes(str, radix)
PParseBytes ==
    /\ pc = "ready"
    /\ op' = "parse_bytes"
    /\ parsed' = parse_bytes(str, radix)
    /\ pc' = IF IsFail(parsed') THEN "failed" ELSE "done"
    /\ UNCHANGED <<estimate, corrected, ordering, over_shift, arg, ret, ua, ub, ur, vin, sgn, ia, ib, ir,
                   radix, str>>

\* BigInt::parse_bytes(str, radix)
PIntParseBytes ==
    /\ pc = "ready"
    /\ op' = "BigInt::parse_bytes"
    /\ ib' = BigInt_parse_bytes(str, radix)
    /\ pc' = IF BI_IsFail(ib') THEN "failed" ELSE "done"
    /\ UNCHANGED <<estimate, corrected, ordering, over_shift, arg, ret, ua, ub, ur, vin, sgn, ia, ir,
                   radix, str, parsed>>

NextParse == PParseBytes \/ PIntParseBytes

SpecParse == InitParse /\ [][NextParse]_vars

----------------------------------------------------------------------------
(* A radix outside 2..16: a BigInt (ua is its magnitude), a string and     *)
(* such a radix are drawn; the value is formatted or the string is parsed  *)

BadRadixes == {0, 1, 17, 18, 36}

BadRadixStrings == SeqsUpTo({"0", "1", "-"}, MaxStr)

InitBadRadix ==
    /\ over_shift \in Builds
    /\ ordering = NoOrdering
    /\ estimate = NoEstimate /\ corrected = NoPair
    /\ arg = 0
    /\ ret = 0
    /\ pc = "ready"
    /\ op = "none"
    /\ ia \in {IntOf(n) : n \in (0 - MaxBadVal)..MaxBadVal}
    /\ ua = ia.data
    /\ ub = <<>>
    /\ ur = NoPair
    /\ vin = <<>>
    /\ sgn = "Zero"
    /\ ib = BigInt_zero /\ ir = NoIntPair
    /\ radix \in BadRadixes
    /\ str \in BadRadixStrings
    /\ parsed = NONE

\* x.to_str_radix(radix) for the BigInt x
ZToStrRadix ==
    /\ pc = "ready"
    /\ op' = "BigInt::to_str_radix"
    /\ str' = BigInt_to_str_radix(ia, radix)
    /\ pc' = IF str' = STR_FAIL THEN "failed" ELSE "formatted"
    /\ UNCHANGED <<estimate, corrected, ordering, over_shift, arg, ret, ua, ub, ur, vin, sgn, ia, ib, ir,
                   radix, parsed>>

NextBadRadix ==
    UToStrRadix \/ ZToStrRadix \/ PParseBytes \/ PIntParseBytes

SpecBadRadix == InitBadRadix /\ [][NextBadRadix]_vars

----------------------------------------------------------------------------
(* The arithmetic laws: two BigInts are drawn (ua and ub are their         *)
(* magnitudes); an action evaluates the two sides of a law, on the         *)
(* magnitudes (ur) or on the BigInts (ir)                                  *)

\* the magnitudes drawn: the small ones, and those around one machine word
\* whose sums and products take three digits and more
LawMagnitudes ==
    (0..MaxLaw)
        \cup {uint_max_value - 1, uint_max_value, uint_modulus,
               uint_modulus + 1, uint_modulus * base - 1}

InitLaw ==
    /\ over_shift \in Builds
    /\ ordering = NoOrdering
    /\ estimate = NoEstimate /\ corrected = NoPair
    /\ arg = 0
    /\ ret = 0
    /\ pc = "ready"
    /\ op = "none"
    /\ ia \in {IntOf(n) : n \in LawMagnitudes}
              \cup {IntOf(0 - n) : n \in LawMagnitudes}
    /\ ib \in {IntOf(n) : n \in LawMagnitudes}
              \cup {IntOf(0 - n) : n \in LawMagnitudes}
    /\ ua = ia.data
    /\ ub = ib.data
    /\ ur = NoPair
    /\ ir = NoIntPair
    /\ vin = <<>>
    /\ sgn = "Zero"
    /\ radix = 0 /\ str = <<>> /\ parsed = NONE

\* the BigUints x and y were computed, or the task failed
Evaluated(name, x, y) ==
    /\ pc = "ready"
    /\ op' = name
    /\ ur' = <<x, y>>
    /\ pc' = IF IsFail(x) \/ IsFail(y) THEN "failed" ELSE "done"
    /\ UNCHANGED <<estimate, corrected, ordering, over_shift, arg, ret, ua, ub, vin, sgn, ia, ib, ir, radix,
                   str, parsed>>

\* the BigInts x and y were computed, or the task failed
IEvaluated(name, x, y) ==
    /\ pc = "ready"
    /\ op' = name
    /\ ir' = <<x, y>>
    /\ pc' = IF BI_IsFail(x) \/ BI_IsFail(y) THEN "failed" ELSE "done"
    /\ UNCHANGED <<estimate, corrected, ordering, over_shift, arg, ret, ua, ub, ur, vin, sgn, ia, ib, radix,
                   str, parsed>>

\* a + b and b + a
LAdd == Evaluated("a + b, b + a", add(ua, ub), add(ub, ua))

\* a * b and b * a
LMul == Evaluated("a * b, b * a", mul(ua, ub), mul(ub, ua))

\* a - b
LSub == Evaluated("a - b", sub(ua, ub), NONE)

\* (a + b) - b and (a + b) - a
LAddSub ==
    Evaluated("(a + b) - b, (a + b) - a",
              sub(add(ua, ub), ub), sub(add(ua, ub), ua))

LIntAdd ==
    IEvaluated("BigInt a + b, b + a", BigInt_add(ia, ib), BigInt_add(ib, ia))

LIntMul ==
    IEvaluated("BigInt a * b, b * a", BigInt_mul(ia, ib), BigInt_mul(ib, ia))

\* x + (-x) and x - x
LIntCancel ==
    IEvaluated("x + (-x), x - x",
               BigInt_add(ia, BigInt_neg(ia)), BigInt_sub(ia, ia))

\* x + 0 and 0 + x
LIntAddZero ==
    IEvaluated("x + 0, 0 + x",
               BigInt_add(ia, BigInt_zero), BigInt_add(BigInt_zero, ia))

\* -x and -(-x)
LIntNeg ==
    IEvaluated("-x, -(-x)", BigInt_neg(ia), BigInt_neg(BigInt_neg(ia)))

\* a.cmp(b) is c, b.cmp(a) is rc, and the operators on (a, b) answer o
Compared(name, c, rc, o) ==
    /\ pc = "ready"
    /\ op' = name
    /\ ordering' = [cmp |-> c, rcmp |-> rc, ops |-> o]
    /\ pc' = "done"
    /\ UNCHANGED <<estimate, corrected, over_shift, arg, ret, ua, ub, ur, vin, sgn, ia, ib,
                   ir, radix, str, parsed>>

LCmp == Compared("cmp", cmp(ua, ub), cmp(ub, ua), BigUint_ord(ua, ub))

LIntCmp ==
    Compared("BigInt cmp", BigInt_cmp(ia, ib), BigInt_cmp(ib, ia),
             BigInt_ord(ia, ib))

\* -a for the BigUint a
LNeg == Evaluated("-a", BigUint_neg(ua), NONE)

LShl == \E n \in 0..MaxShift : Evaluated("a << n", shl(ua, n), NONE)

LShr == \E n \in 0..MaxShift : Evaluated("a >> n", shr(ua, n), NONE)

LIntShl ==
    \E n \in 0..MaxShift :
        IEvaluated("BigInt a << n", BigInt_shl(ia, n), NoInt)

LIntShr ==
    \E n \in 0..MaxShift :
        IEvaluated("BigInt a >> n", BigInt_shr(ia, n), NoInt)

\* a - b and a + (-b)
LIntSub ==
    IEvaluated("BigInt a - b, a + (-b)",
               BigInt_sub(ia, ib), BigInt_add(ia, BigInt_neg(ib)))

NextLaw ==
    \/ LAdd \/ LMul \/ LSub \/ LAddSub
    \/ LIntAdd \/ LIntMul \/ LIntCancel \/ LIntAddZero \/ LIntNeg
    \/ LCmp \/ LIntCmp
    \/ LNeg \/ LShl \/ LShr \/ LIntShl \/ LIntShr \/ LIntSub

SpecLaw == InitLaw /\ [][NextLaw]_vars

----------------------------------------------------------------------------
(* Multiplication: two BigUints are drawn, of up to three digits each or   *)
(* of up to two and of four digits; the product or the middle term of the  *)
(* Karatsuba path is computed                                              *)

\* factors of one and two digits
MulShorts ==
    {Digits(n) : n \in (0..MaxMul) \cup {uint_max_value - 1, uint_max_value}}

\* factors of three digits
MulMiddles ==
    {Digits(n) : n \in {uint_modulus, uint_modulus + 1,
                         uint_modulus + base, uint_modulus * 2 - 1,
                         uint_modulus * (base - 1),
                         uint_modulus * base - 1}}

\* factors of four digits, with a low half, a high half or no half of zero
MulLongs ==
    {Digits(n) : n \in {uint_modulus * base, uint_modulus * base + 1,
                         uint_modulus * base + base,
                         uint_modulus * (base + 1),
                         uint_modulus * (uint_modulus - 1),
                         uint_modulus * uint_modulus - 1}}

InitMul ==
    /\ over_shift \in Builds
    /\ ordering = NoOrdering
    /\ estimate = NoEstimate /\ corrected = NoPair
    /\ arg = 0
    /\ ret = 0
    /\ pc = "ready"
    /\ op = "none"
    /\ \/ /\ ua \in MulShorts \cup MulMiddles
          /\ ub \in MulShorts \cup MulMiddles
       \/ /\ ua \in MulShorts
          /\ ub \in MulLongs
       \/ /\ ua \in MulLongs
          /\ ub \in MulShorts
    /\ ur = NoPair
    /\ vin = <<>>
    /\ sgn = "Zero"
    /\ ia = BigInt_zero /\ ib = BigInt_zero /\ ir = NoIntPair
    /\ radix = 0 /\ str = <<>> /\ parsed = NONE

\* a * b
MMul == Evaluated("a * b", mul(ua, ub), NONE)

\* the middle term of a * b, both operands of two digits or more
MMiddle ==
    /\ Len(ua) >= 2
    /\ Len(ub) >= 2
    /\ Evaluated("mm of a * b",
                 mul_middle_of(cut_at(ua, uint_max(Len(ua), Len(ub)) \div 2),
                               cut_at(ub, uint_max(Len(ua), Len(ub)) \div 2)),
                 NONE)

NextMul == MMul \/ MMiddle

SpecMul == InitMul /\ [][NextMul]_vars

----------------------------------------------------------------------------
(* The recursion of Mul for BigUint, one call per step: (ua, ub) are the   *)
(* operands of the call the task is in, and a step goes into one of the    *)
(* products the call asks for, or returns from a call of the base case     *)

\* the call x * y is entered
Called(name, x, y) ==
    /\ pc = "ready"
    /\ Len(ua) >= 2 /\ Len(ub) >= 2
    /\ op' = name
    /\ ua' = x
    /\ ub' = y
    /\ UNCHANGED <<estimate, corrected, ordering, over_shift, pc, arg, ret,
                   ur, vin, sgn, ia, ib, ir, radix, str, parsed>>

\* `let ll = sLo * oLo;`, sc and oc being the operands as cut
MLowOf(sc, oc) == Called("ll", sc[2], oc[2])

\* `let hh = sHi * oHi;`
MHighOf(sc, oc) == Called("hh", sc[1], oc[1])

\* `n1 * n2`, computed unless s1 * s2 is zero
MDiffOf(sn1, sn2) ==
    /\ sn1[1] * sn2[1] # 0
    /\ Called("n1 * n2", sn1[2], sn2[2])

MLow ==
    MLowOf(cut_at(ua, uint_max(Len(ua), Len(ub)) \div 2),
           cut_at(ub, uint_max(Len(ua), Len(ub)) \div 2))

MHigh ==
    MHighOf(cut_at(ua, uint_max(Len(ua), Len(ub)) \div 2),
            cut_at(ub, uint_max(Len(ua), Len(ub)) \div 2))

MDiff ==
    MDiffOf(sub_sign(cut_at(ua, uint_max(Len(ua), Len(ub)) \div 2)[1],
                     cut_at(ua, uint_max(Len(ua), Len(ub)) \div 2)[2]),
            sub_sign(cut_at(ub, uint_max(Len(ua), Len(ub)) \div 2)[1],
                     cut_at(ub, uint_max(Len(ua), Len(ub)) \div 2)[2]))

\* a zero or single-digit operand: the call returns without a further call
MBase ==
    /\ Len(ua) <= 1 \/ Len(ub) <= 1
    /\ Evaluated("a * b", mul(ua, ub), NONE)

NextKaratsuba == MLow \/ MHigh \/ MDiff \/ MBase

SpecKaratsuba == InitMul /\ [][NextKaratsuba]_vars

----------------------------------------------------------------------------
(* The properties *)

\* x is a value returned, not the place of a value that was not returned
IsValue(x) == x # NONE /\ ~IsFail(x)
IsIntValue(x) == x # NoInt /\ ~BI_IsFail(x)

\* zero is the empty vector, and the last digit of any other value is not 0
NoTrailingZero(x) == Normalized(x) /\ (Val(x) = 0 => x = <<>>)

\* C1: whatever sequence of public BigUint constructors and operations
\* (new, from_slice, from_uint, parse_bytes, add, sub, mul, divmod, shl,
\* shr) has run, every BigUint produced - those held as operands and the
\* one or two returned last - has a nonzero last (most significant) digit,
\* and zero is the empty digit vector only.
C1_NoTrailingZero ==
    /\ NoTrailingZero(ua)
    /\ NoTrailingZero(ub)
    /\ \A i \in 1..2 : IsValue(ur[i]) => NoTrailingZero(ur[i])

\* sub has returned a value whose top digit went: base - (1) = <<base - 1>>
C1_Witness ==
    /\ op = "sub"
    /\ pc = "ready"
    /\ ub = <<1>>
    /\ ur[1] = <<base - 1>>

\* the sign is Zero exactly for the magnitude zero
SignMatches(x) == (x.sign = "Zero") <=> (Val(x.data) = 0)

SignedConstructors ==
    {"BigInt::new", "BigInt::from_slice", "BigInt::from_biguint"}

\* C2: whatever sequence of public BigInt constructors and operations has
\* run, every BigInt produced has the sign Zero if and only if its
\* magnitude is zero; and a constructor handed the sign Zero or a zero
\* magnitude returns the canonical zero (Zero, empty magnitude).
C2_SignMatchesMagnitude ==
    /\ SignMatches(ia)
    /\ \A i \in 1..2 : IsIntValue(ir[i]) => SignMatches(ir[i])
    /\ (/\ op \in SignedConstructors
        /\ sgn = "Zero" \/ Val(vin) = 0)
       => ir[1] = [sign |-> "Zero", data |-> <<>>]

\* from_slice was handed the sign Zero with a nonzero magnitude
C2_Witness ==
    /\ op = "BigInt::from_slice"
    /\ sgn = "Zero"
    /\ vin = <<0, 1>>
    /\ ir[1] = [sign |-> "Zero", data |-> <<>>]

\* x is v without its trailing zero digits, the other digits in place
Stripped(v, x) ==
    /\ Len(x) <= Len(v)
    /\ \A i \in 1..Len(x) : x[i] = v[i]
    /\ \A i \in (Len(x) + 1)..Len(v) : v[i] = 0
    /\ Len(x) > 0 => x[Len(x)] # 0

\* C3: for every digit array v, from_slice(v) and new(v) hold exactly v
\* without its trailing (most significant) zero digits, every other digit
\* unchanged in value and position: an all-zero or empty v gives the empty
\* vector, interior and leading zero digits are kept.
C3_TrailingZerosStripped ==
    (pc = "done" /\ op \in {"new", "from_slice"}) => Stripped(vin, ua)

\* from_slice was handed a leading and a trailing zero: the first is kept
C3_Witness ==
    /\ pc = "done"
    /\ op = "from_slice"
    /\ vin = <<0, 1, 0>>
    /\ ua = <<0, 1>>

\* C4: for every BigUint a and every nonzero BigUint b, a.divmod(b)
\* returns (q, r) with a == b*q + r and r < b, on the fast paths and on
\* the long division alike.
C4_DivmodReconstructs ==
    (op = "divmod" /\ ub # <<>>) =>
        /\ pc = "done"
        /\ Val(ua) = Val(ub) * Val(ur[1]) + Val(ur[2])
        /\ Val(ur[2]) < Val(ub)

SignedPairs == {"BigInt::divmod", "BigInt::quotrem"}

\* C5: for every BigInt a and every nonzero BigInt b, of any signs, both
\* conventions give the dividend back: a == b*d + m for
\* (d, m) = a.divmod(b) and a == b*q + r for (q, r) = a.quotrem(b).
C5_SignedReconstructs ==
    (op \in SignedPairs /\ ib.sign # "Zero") =>
        /\ pc = "done"
        /\ IVal(ia) = IVal(ib) * IVal(ir[1]) + IVal(ir[2])

\* C6: for every BigInt a and nonzero BigInt b, the remainder m of
\* a.divmod(b) is zero or has the sign of the divisor b; and when
\* |a| mod |b| is not zero and the signs of the operands differ, the
\* quotient is -(|a| div |b|) - 1.
C6_FloorDivmod ==
    (op = "BigInt::divmod" /\ ib.sign # "Zero") =>
        /\ pc = "done"
        /\ ir[2].sign = "Zero" \/ ir[2].sign = ib.sign
        /\ (Val(ia.data) % Val(ib.data) # 0 /\ ia.sign # ib.sign)
           => IVal(ir[1]) = 0 - (Val(ia.data) \div Val(ib.data)) - 1

\* the sign of a product of two numbers of the signs s and o
ProductSign(s, o) ==
    IF s = "Zero" \/ o = "Zero" THEN "Zero"
    ELSE IF s = o THEN "Plus" ELSE "Minus"

\* C7: for every BigInt a and nonzero BigInt b, a.quotrem(b) truncates:
\* the magnitude of the quotient is |a| div |b| and its sign that of the
\* product of the signs, the remainder is zero or has the sign of the
\* dividend a, and its magnitude is |a| mod |b|.
C7_TruncatingQuotrem ==
    (op = "BigInt::quotrem" /\ ib.sign # "Zero") =>
        /\ pc = "done"
        /\ Val(ir[1].data) = Val(ia.data) \div Val(ib.data)
        /\ ir[1].sign \in {"Zero", ProductSign(ia.sign, ib.sign)}
        /\ ir[2].sign = "Zero" \/ ir[2].sign = ia.sign
        /\ Val(ir[2].data) = Val(ia.data) % Val(ib.data)

\* C8: for every BigInt a and nonzero BigInt b, the remainder that divmod
\* (modulo) returns and the remainder that quotrem (rem) returns have a
\* magnitude strictly below that of the divisor: |rem| < |b|.
C8_RemainderBelowDivisor ==
    (pc = "done" /\ ib.sign # "Zero") =>
        /\ op \in SignedPairs => Val(ir[2].data) < Val(ib.data)
        /\ op \in {"BigInt::modulo", "BigInt::rem"}
           => Val(ir[1].data) < Val(ib.data)

\* quotrem of a negative number by a number of its magnitude: the
\* remainder is zero, not the divisor
C8_Witness ==
    /\ pc = "done"
    /\ op = "BigInt::quotrem"
    /\ ia.sign = "Minus"
    /\ ib.sign = "Plus"
    /\ ia.data = ib.data
    /\ Len(ib.data) = 2
    /\ ir[2] = [sign |-> "Zero", data |-> <<>>]

UnsignedDivisions == {"divmod", "div", "modulo", "quotrem", "quot", "rem"}

SignedDivisions ==
    {"BigInt::divmod", "BigInt::div", "BigInt::modulo", "BigInt::quotrem",
     "BigInt::quot", "BigInt::rem"}

\* C9: a division by zero fails the task and returns nothing, whatever the
\* dividend (zero too, and of any sign): BigUint divmod, div, modulo,
\* quot, rem, quotrem and BigInt divmod, div, modulo, quot, rem, quotrem.
C9_DivisionByZeroFails ==
    /\ (op \in UnsignedDivisions /\ ub = <<>>)
       => (pc = "failed" /\ ur[1] = FAIL /\ ur[2] = FAIL)
    /\ (op \in SignedDivisions /\ ib.sign = "Zero")
       => (pc = "failed" /\ ir[1].data = FAIL /\ ir[2].data = FAIL)

\* zero was divided by zero, by the BigUint divmod
C9_Witness ==
    /\ pc = "failed"
    /\ op = "divmod"
    /\ ua = <<>>
    /\ ub = <<>>

\* C10: for every BigUint x and every radix r in 2..16, to_str_radix
\* returns and parsing what it returned gives x back:
\* from_str_radix(x.to_str_radix(r), r) == Some(x), the powers of the
\* chunk base of the radix included.
C10_RadixRoundTrip ==
    /\ op = "to_str_radix" => pc = "formatted"
    /\ op = "from_str_radix" => (pc = "done" /\ parsed = ua)

\* C11: for every BigUint x and every shift amount n, a multiple of
\* BigDigit::bits or not, above it or not, (x << n) >> n == x.
C11_ShlShrRoundTrip ==
    /\ op = "shl" => pc = "shifted"
    /\ op = "shl_shr" => (pc = "done" /\ ub = ua)

\* C12: for every BigUint x and shift amount n, x >> n is floor(x / 2^n):
\* n / bits digits are dropped and the low n % bits bits of each digit go
\* to the top of the digit below; a shift by 0 or of zero returns the
\* value, a shift by the bit length or more gives zero.
C12_ShrIsFloorDiv ==
    op = "shr" => (pc = "done" /\ ub = Digits(Val(ua) \div Pow(2, arg)))

\* the number n brought into lo..hi
Clamped(n, lo, hi) == IF n < lo THEN lo ELSE IF n > hi THEN hi ELSE n

\* C13: for every BigInt x, x.to_int() is the value of x clamped to
\* int::min_value..int::max_value: exact inside the range, so that
\* from_int(i).to_int() == i for every native int i, negative ones too,
\* and saturated at either end outside it.
C13_BigIntToIntClamps ==
    /\ op = "BigInt::to_int"
       => ret = Clamped(IVal(ia), int_min_value, int_max_value)
    /\ op = "BigInt::from_int.to_int" => ret = arg

\* C14: for every BigUint x, x.to_uint() is the value of x when x has at
\* most two digits and uint::max_value when it has three or more,
\* x.to_int() is min(value of x, int::max_value), and
\* BigUint::from_uint(u).to_uint() == u for every native uint u.
C14_BigUintToNative ==
    /\ (op = "to_uint" /\ Len(ua) <= 2) => ret = Val(ua)
    /\ (op = "to_uint" /\ Len(ua) >= 3) => ret = uint_max_value
    /\ op = "to_int" => ret = Clamped(Val(ua), 0, int_max_value)
    /\ op = "from_uint.to_uint" => ret = arg

\* a value of three digits was converted: to_uint saturates
C14_Witness ==
    /\ pc = "done"
    /\ op = "to_uint"
    /\ Len(ua) = 3
    /\ ret = uint_max_value

\* C15: for every BigInt x, x.to_uint() is 0 when x is negative or zero,
\* whatever the magnitude, the value of x when x is positive and fits a
\* machine word, and uint::max_value when x is positive and does not;
\* BigInt::from_uint(u).to_uint() == u for every native uint u.
C15_BigIntToUint ==
    /\ op = "BigInt::to_uint"
       => ret = IF ia.sign # "Plus" THEN 0
                ELSE Clamped(IVal(ia), 0, uint_max_value)
    /\ op = "BigInt::from_uint.to_uint" => ret = arg

\* a negative number of two digits was converted: to_uint gives 0
C15_Witness ==
    /\ pc = "done"
    /\ op = "BigInt::to_uint"
    /\ ia.sign = "Minus"
    /\ Len(ia.data) = 2
    /\ ret = 0

\* every character of s is one of the first rdx digit characters
AllDigits(s, rdx) ==
    \A i \in 1..Len(s) : \E k \in 1..rdx : s[i] = DigitChars[k]

\* s without its leading '-'
Unsigned(s) == IF Len(s) > 0 /\ s[1] = "-" THEN Tail(s) ELSE s

\* C16: with a radix in 2..16 parsing never aborts, and returns None when
\* the input is empty or holds a byte that is no digit of the radix,
\* wherever the byte sits; a leading '-' is accepted by
\* BigInt::parse_bytes only (BigUint::parse_bytes returns None), and
\* BigInt::parse_bytes returns None for the empty string and for "-".
C16_ParseNeverAborts ==
    /\ op = "parse_bytes"
       => /\ pc = "done"
          /\ (Len(str) = 0 \/ ~AllDigits(str, radix)) => parsed = NONE
          /\ (Len(str) > 0 /\ AllDigits(str, radix)) => parsed # NONE
    /\ op = "BigInt::parse_bytes"
       => /\ pc = "done"
          /\ (Len(Unsigned(str)) = 0 \/ ~AllDigits(Unsigned(str), radix))
             => ib = NoInt
          /\ (Len(Unsigned(str)) > 0 /\ AllDigits(Unsigned(str), radix))
             => /\ ib # NoInt
                /\ str[1] = "-" => ib.sign \in {"Minus", "Zero"}

\* a string of two chunks was parsed whose last chunk is a digit and whose
\* first is not: None
C16_Witness ==
    /\ pc = "done"
    /\ op = "parse_bytes"
    /\ Len(str) = 2
    /\ get_radix_base(radix)[2] = 1
    /\ AllDigits(<<str[2]>>, radix)
    /\ ~AllDigits(<<str[1]>>, radix)
    /\ parsed = NONE

\* C17: for every BigUint and BigInt, zero included, and every radix
\* outside 2..16, to_str_radix fails and returns no string, and
\* parse_bytes with such a radix fails as well rather than returning None.
C17_BadRadixFails ==
    (radix \in BadRadixes /\ op # "none") => pc = "failed"

\* C18: addition and multiplication commute on both types: for all
\* BigUint a, b and all BigInt a, b of every sign, a + b == b + a and
\* a * b == b * a.
C18_AddMulCommute ==
    /\ op \in {"a + b, b + a", "a * b, b * a"}
       => (pc = "done" /\ ur[1] = ur[2])
    /\ op \in {"BigInt a + b, b + a", "BigInt a * b, b * a"}
       => (pc = "done" /\ ir[1] = ir[2])

\* two BigInts of opposite signs and two digits each were multiplied
C18_Witness ==
    /\ pc = "done"
    /\ op = "BigInt a * b, b * a"
    /\ ia.sign = "Plus" /\ ib.sign = "Minus"
    /\ Len(ia.data) = 2 /\ Len(ib.data) = 2
    /\ ia.data # ib.data
    /\ ir[1] = ir[2]
    /\ ir[1].sign = "Minus"

\* C19: for every BigInt x, x + (-x) is the canonical zero, x - x == 0,
\* x + 0 == x and 0 + x == x; negation swaps Plus and Minus, keeps the
\* magnitude, maps zero to zero, and -(-x) == x.
C19_BigIntAdditiveLaws ==
    /\ op = "x + (-x), x - x"
       => (pc = "done" /\ ir[1] = BigInt_zero /\ ir[2] = BigInt_zero)
    /\ op = "x + 0, 0 + x" => (pc = "done" /\ ir[1] = ia /\ ir[2] = ia)
    /\ op = "-x, -(-x)"
       => /\ pc = "done"
          /\ ir[1].data = ia.data
          /\ ia.sign = "Plus" => ir[1].sign = "Minus"
          /\ ia.sign = "Minus" => ir[1].sign = "Plus"
          /\ ia.sign = "Zero" => ir[1] = BigInt_zero
          /\ ir[2] = ia

\* a negative number of two digits was added to its negation
C19_Witness ==
    /\ pc = "done"
    /\ op = "x + (-x), x - x"
    /\ ia.sign = "Minus"
    /\ Len(ia.data) = 2
    /\ ir[1] = BigInt_zero

\* C20: for all BigUint a, b, a - b fails if and only if a < b; when
\* a >= b it returns the normalized difference, so that (a + b) - b == a
\* and (a + b) - a == b.
C20_SubFailsIffLess ==
    /\ op = "a - b"
       => /\ pc = "failed" <=> Val(ua) < Val(ub)
          /\ Val(ua) >= Val(ub) => ur[1] = Digits(Val(ua) - Val(ub))
    /\ op = "(a + b) - b, (a + b) - a"
       => (pc = "done" /\ ur[1] = ua /\ ur[2] = ub)

\* a number of two digits was subtracted from one of three, with a borrow
\* out of the low digit
C20_Witness ==
    /\ pc = "done"
    /\ op = "a - b"
    /\ Len(ua) = 3 /\ Len(ub) = 2
    /\ ua[1] < ub[1]
    /\ ur[1] = Digits(Val(ua) - Val(ub))

\* -1, 0 or 1 as m is below, equal to or above n
Order(m, n) == IF m < n THEN -1 ELSE IF m > n THEN 1 ELSE 0

\* the six comparison operators answer as the numbers m and n compare
OperatorsAgree(o, m, n) ==
    /\ o.eq <=> m = n
    /\ o.ne <=> m # n
    /\ o.lt <=> m < n
    /\ o.le <=> m <= n
    /\ o.ge <=> m >= n
    /\ o.gt <=> m > n

\* C21: for all normalized BigUint a, b, a.cmp(b) is negative, zero or
\* positive as the value of a is below, equal to or above that of b; cmp
\* is antisymmetric, and ==, !=, <, <=, >, >= agree with it.
C21_CmpOrdersByValue ==
    op = "cmp"
        => /\ ordering.cmp = Order(Val(ua), Val(ub))
           /\ ordering.cmp = 0 - ordering.rcmp
           /\ OperatorsAgree(ordering.ops, Val(ua), Val(ub))

\* two numbers of as many digits with the same top digit were compared,
\* the smaller one first
C21_Witness ==
    /\ pc = "done"
    /\ op = "cmp"
    /\ Len(ua) = 2 /\ Len(ub) = 2
    /\ ua[2] = ub[2]
    /\ ordering.cmp = -1
    /\ ordering.ops.lt

\* C22: for all BigInt a, b, a.cmp(b) orders by the signed value: Minus
\* below Zero below Plus, two positives by magnitude, two negatives by
\* magnitude reversed, two zeros equal; cmp is antisymmetric, and ==, !=,
\* <, <=, >, >= agree with it.
C22_BigIntCmpOrdersByValue ==
    op = "BigInt cmp"
        => /\ ordering.cmp = Order(IVal(ia), IVal(ib))
           /\ ordering.cmp = 0 - ordering.rcmp
           /\ OperatorsAgree(ordering.ops, IVal(ia), IVal(ib))

\* two negative numbers were compared, the one of larger magnitude first
C22_Witness ==
    /\ pc = "done"
    /\ op = "BigInt cmp"
    /\ ia.sign = "Minus" /\ ib.sign = "Minus"
    /\ Val(ia.data) > Val(ib.data)
    /\ ordering.cmp = -1
    /\ ordering.ops.lt

\* the high and the low part of the number n cut at the digit h
HighPart(n, h) == n \div Pow(base, h)
LowPart(n, h) == n % Pow(base, h)

\* highA * lowB + lowA * highB for the numbers m and n cut at the digit h
CrossTerm(m, n, h) ==
    HighPart(m, h) * LowPart(n, h) + LowPart(m, h) * HighPart(n, h)

TotalOperations ==
    {"a + b, b + a", "a * b, b * a", "-a", "a << n", "a >> n", "cmp",
     "BigInt a + b, b + a", "BigInt a * b, b * a", "-x, -(-x)",
     "BigInt a << n", "BigInt a >> n", "BigInt cmp",
     "BigInt a - b, a + (-b)"}

\* C24: add, mul, neg, shl, shr, cmp of BigUint and of BigInt and the
\* signed sub return a value for every input: no operator fails but a
\* division or remainder by zero and the unsigned sub with a < b.
C24_OperatorsAreTotal ==
    /\ op \in TotalOperations => pc = "done"
    /\ pc = "failed" => (op = "a - b" /\ Val(ua) < Val(ub))

\* the number the chunks v stand for, least significant first
RECURSIVE SumChunks(_, _)
SumChunks(v, cbase) ==
    IF Len(v) = 0 THEN 0 ELSE v[1] + cbase * SumChunks(Tail(v), cbase)

\* C25: for a radix whose chunk base is not BigDigit::base, convert_base
\* ends for every BigUint n, every chunk it collects is below the chunk
\* base, so that the text of a chunk has at most chunkDigitCount
\* characters and the padding is never negative, and the chunks, least
\* significant first, add up to n.
C25_ChunksBelowChunkBase ==
    op = "convert_base"
        => /\ pc = "converted"
           /\ \A i \in 1..Len(vin) :
                  /\ vin[i] < get_radix_base(radix)[1]
                  /\ Len(uint_to_str_radix(vin[i], radix))
                         <= get_radix_base(radix)[2]
           /\ SumChunks(vin, get_radix_base(radix)[1]) = Val(ua)

\* the most significant digit of the nonzero BigUint a
TopDigit(a) == a[Len(a)]

\* the top two bits of the digit d are set
TopTwoBitsSet(d) == d >= 3 * Pow(2, bits - 2)

\* one of the top two bits of the digit d is set
OneOfTopTwoBitsSet(d) == d >= Pow(2, bits - 2)

\* C26, as claimed: on the general path of divmod, `shift` is the smallest
\* bit count after which the most significant digit of the shifted
\* divisor has its top 2 bits set, and the shifted divisor has as many
\* digits as the divisor.
C26_TopTwoBitsSet ==
    op = "normalize"
        => /\ pc = "normalized"
           /\ TopTwoBitsSet(TopDigit(ur[2]))
           /\ \A s \in 0..(ret - 1) :
                  ~TopTwoBitsSet(TopDigit(Digits(Val(ub) * Pow(2, s))))
           /\ Len(ur[2]) = Len(ub)

\* C26, amended: `shift` is the smallest bit count after which the most
\* significant digit of the shifted divisor is at least
\* 1 << (BigDigit::bits - 2), that is, has one of its top 2 bits set; it
\* is below BigDigit::bits, both operands are shifted by it, and the
\* shifted divisor has as many digits as the divisor.
C26_OneOfTopTwoBitsSet ==
    op = "normalize"
        => /\ pc = "normalized"
           /\ ret < bits
           /\ ur[1] = Digits(Val(ua) * Pow(2, ret))
           /\ ur[2] = Digits(Val(ub) * Pow(2, ret))
           /\ OneOfTopTwoBitsSet(TopDigit(ur[2]))
           /\ \A s \in 0..(ret - 1) :
                  ~OneOfTopTwoBitsSet(TopDigit(Digits(Val(ub) * Pow(2, s))))
           /\ Len(ur[2]) = Len(ub)

\* a divisor of two digits was shifted, and its top bit is still clear
C26_Witness ==
    /\ pc = "normalized"
    /\ op = "normalize"
    /\ Len(ub) = 2
    /\ ret > 0
    /\ OneOfTopTwoBitsSet(TopDigit(ur[2]))
    /\ ~TopTwoBitsSet(TopDigit(ur[2]))

----------------------------------------------------------------------------
(* The long division loop                                                  *)

\* how many times `d0 -= d_unit` ran in the last pass
Decrements == (Val(estimate[1]) - Val(corrected[1])) \div Val(estimate[2])

\* the divisor's top digit is base / 4 at least, so that the estimate is
\* above the digit of the quotient by base / (base / 4) at most
MaxDecrements == base \div Pow(2, bits - 2)

\* what the loop `while r >= b` counts down: r first, then n
Variant == 2 * Val(ur[2]) + (2 - arg)

\* a pass of `while r >= b` takes something off r, or goes from n = 1 to
\* n = 2 and leaves (d, r) alone; with n = 2 it always takes something off
PassProgresses ==
    (pc = "loop" /\ op' = "pass") =>
        /\ pc' = "loop"
        /\ \/ /\ Val(ur'[2]) < Val(ur[2])
              /\ Val(ur'[1]) > Val(ur[1])
              /\ arg' = 1
           \/ /\ arg = 1 /\ arg' = 2
              /\ ur' = ur
        /\ Variant' < Variant
        /\ Variant' >= 0

\* `while prod > r` ends after MaxDecrements passes at most
DecrementsBounded ==
    (op = "pass" /\ pc = "loop") =>
        /\ Decrements <= MaxDecrements
        /\ Val(corrected[1]) + Decrements * Val(estimate[2]) = Val(estimate[1])

\* C27: for every a and nonzero b divmod terminates: every pass of the
\* outer loop of divmod_inner strictly decreases r or switches n from 1 to
\* 2, so that a natural number goes down in every pass; a pass with n = 2
\* never ends with d0 zero; and the correction loop `while prod > r` ends
\* after a bounded number of decrements.
C27_DivmodTerminates ==
    /\ [][PassProgresses]_vars
    /\ [](pc # "hung")
    /\ []DecrementsBounded

\* a pass with n = 1 whose estimate was taken down to zero: n is now 2
C27_Witness ==
    /\ pc = "loop" /\ op = "pass"
    /\ arg = 2
    /\ Decrements >= 1
    /\ is_zero(corrected[1])

\* the n = 2 pass has removed something and the division has returned
C27_WitnessDone ==
    /\ pc = "done" /\ op = "divmod"
    /\ Len(estimate[1]) = Len(estimate[2]) + 1
    /\ Decrements >= 2
    /\ ur = divmod(ua, ub)

\* C30: for every a and nonzero b no assertion and no precondition of a
\* subtraction fails within a.divmod(b): shift < BigDigit::bits after the
\* normalization, every di < BigDigit::base in div_estimate, the slice and
\* the digit shift of div_estimate are not negative, and `d0 -= d_unit`,
\* `prod -= b_unit` and `r -= prod` never go below zero.
C30_NoAssertionFails ==
    /\ pc # "failed"
    /\ pc \in {"normalized", "loop", "done"} => ret < bits
    /\ (op = "pass") =>
        /\ ~IsFail(estimate[1]) /\ ~IsFail(estimate[2]) /\ ~IsFail(estimate[3])
        /\ ~IsFail(corrected[1]) /\ ~IsFail(corrected[2])
        /\ ~IsFail(ur[1]) /\ ~IsFail(ur[2])
        /\ Len(estimate[2]) >= 1
        /\ Val(corrected[1]) <= Val(estimate[1])
        /\ Val(corrected[2]) = Val(corrected[1]) * Val(shl(ub, ret))

\* a pass in which the correction loop ran twice and r -= prod was done
C30_Witness ==
    /\ pc = "loop" /\ op = "pass"
    /\ arg = 1
    /\ Decrements >= 2
    /\ Val(corrected[1]) > 0

----------------------------------------------------------------------------
(* The recursion of the multiplication                                     *)

\* the larger digit count of the operands of the call
LargerLen == uint_max(Len(ua), Len(ub))

\* a call entered from a call has shorter operands than that call
CallDescends ==
    (op' \in {"ll", "hh", "n1 * n2"}) =>
        /\ Len(ua) >= 2 /\ Len(ub) >= 2
        /\ IsValue(ua') /\ IsValue(ub')
        /\ NoTrailingZero(ua') /\ NoTrailingZero(ub')
        /\ LargerLen' < LargerLen

\* C28: the Karatsuba recursion terminates: whenever both operands have
\* two digits or more, each of the three products the call asks for
\* (low * low, high * high, |highA - lowA| * |highB - lowB|) has operands
\* whose larger digit count is strictly below that of the call's operands,
\* so that every path of calls ends in a zero or single-digit operand.
C28_KaratsubaDescends ==
    /\ [][CallDescends]_vars
    /\ [](pc = "done" => (Len(ua) <= 1 \/ Len(ub) <= 1))
    /\ [](pc # "failed")

\* a call of the second level that asks for products itself
C28_Witness ==
    /\ pc = "ready"
    /\ op = "n1 * n2"
    /\ Len(ua) = 2 /\ Len(ub) = 2

\* a path of two calls that ended in the base case
C28_WitnessBase ==
    /\ pc = "done"
    /\ op = "a * b"
    /\ Len(ua) = 1 /\ Len(ub) = 1

----------------------------------------------------------------------------
(* Signed subtraction                                                      *)

\* C29: for all BigInt a, b, in all nine combinations of their signs,
\* a - b returns what a + (-b) returns, the difference of the values, and
\* neither the signed add nor the signed sub fails in the subtraction of
\* the magnitudes: the smaller one is always the one subtracted.
C29_SubIsAddOfNeg ==
    /\ op = "BigInt a - b, a + (-b)"
       => /\ pc = "done"
          /\ IsIntValue(ir[1]) /\ IsIntValue(ir[2])
          /\ ir[1] = ir[2]
          /\ ir[1] = IntOf(IVal(ia) - IVal(ib))
    /\ op = "BigInt a + b, b + a"
       => /\ pc = "done"
          /\ IsIntValue(ir[1]) /\ IsIntValue(ir[2])
          /\ ir[1] = IntOf(IVal(ia) + IVal(ib))

\* two negative numbers, the one of the smaller magnitude first
C29_Witness ==
    /\ pc = "done"
    /\ op = "BigInt a - b, a + (-b)"
    /\ ia.sign = "Minus" /\ ib.sign = "Minus"
    /\ cmp(ia.data, ib.data) < 0
    /\ Len(ib.data) = 2
    /\ ir[1].sign = "Plus"
====
